---- MODULE Spec2Model ----
(***************************************************************************)
(* Blackboard: the identity resolver, the validation layer, the entity     *)
(* store operations and the line-delimited JSON-RPC dispatcher.            *)
(*                                                                         *)
(* Free text (agent ids, tasks, contents, paths ...) is a sequence of      *)
(* one-character strings, so that len() and the per-character checks are   *)
(* computed as the code computes them.  Protocol keywords (method names,   *)
(* tool names, enum spellings, error kinds) are plain strings.             *)
(* Option<T> is a sequence of length 0 (None) or 1 (Some).                 *)
(* Time is counted in seconds.                                             *)
(***************************************************************************)
EXTENDS Integers, Sequences, FiniteSets, TLC

VARIABLES
    bb_dir,        \* the .bb directory exists
    db_file,       \* .bb/blackboard.db exists
    db_tables,     \* the file holds the tables of the schema
    initialized,   \* run_mcp_server's local: is_initialized() at server start
    fixed_agent,   \* IdentityResolver.fixed_agent
    env_agent,     \* IdentityResolver.env_agent
    resolved,      \* IdentityResolver.resolved
    agents,        \* table agents: id -> row
    messages,      \* table messages: set of rows
    msg_seq,       \* highest message rowid handed out so far
    artifacts,     \* table artifacts: path -> row
    art_seq,       \* highest artifact rowid handed out so far
    now,           \* the wall clock, in seconds
    line,          \* the line the read loop handled last
    result,        \* the Result of the last handle_request call
    emitted,       \* the responses written to stdout for the last line
    stopped,       \* the read loop has ended
    client,        \* the client of the session: which lines it may send, and
                   \* whether the traffic is logged in lines and out
    lines,         \* history: every line read so far
    out,           \* history: every response written so far
    lock,          \* tokio Mutex around the resolver: 0 = free, else the holder
    tpc,           \* concurrent tool tasks: position of each
    targ,          \* concurrent tool tasks: the agent_id argument of each
    tres,          \* concurrent tool tasks: what each returned / observed
    ppc,           \* interleaved store processes: position of each
    plocal,        \* interleaved store processes: the Agent struct each holds
    pin            \* interleaved store processes: the inputs of the status update

resolver_vars == <<fixed_agent, env_agent, resolved>>
store_vars == <<agents, messages, msg_seq, artifacts, art_seq>>
fs_vars == <<bb_dir, db_file, db_tables, initialized>>
disk_vars == <<db_file, db_tables>>
loop_vars == <<line, result, emitted, stopped>>
hist_vars == <<lines, out>>
task_vars == <<lock, tpc, targ, tres>>
proc_vars == <<ppc, plocal, pin>>
vars == <<fs_vars, resolver_vars, store_vars, now, loop_vars, client, hist_vars,
          task_vars, proc_vars>>

----------------------------------------------------------------------------
(* Option and Result *)

None == <<>>
Some(x) == <<x>>
IsSome(o) == o # <<>>
Unwrap(o) == o[1]

\* Option::or
OptOr(a, b) == IF IsSome(a) THEN a ELSE b

Ok(v) == [ok |-> TRUE, kind |-> "Ok", msg |-> "", val |-> v]
Err(k, m) == [ok |-> FALSE, kind |-> k, msg |-> m, val |-> <<>>]

\* The variants of BBError.
ErrorKinds ==
    {"NotInitialized", "DatabaseBusy", "InvalidInput", "InvalidRefFormat",
     "PathTraversal", "NotFound", "IdentityRequired", "IoError",
     "SqliteError", "JsonError"}

----------------------------------------------------------------------------
(* Text *)

\* A text of n characters.
Rep(n) == [i \in 1..n |-> "x"]

ControlChars == {"\n", "\t", "\r"}
WhitespaceChars == {" ", "\n", "\t", "\r"}
is_control(c) == c \in ControlChars
is_whitespace(c) == c \in WhitespaceChars

AnyChar(s, P(_)) == \E i \in 1..Len(s) : P(s[i])

----------------------------------------------------------------------------
(* core/validation/limits.rs *)

MAX_AGENT_ID_LEN == 64
MAX_TASK_LEN == 256
MAX_BLOCKERS_LEN == 1024
MAX_MESSAGE_CONTENT_LEN == 65536
MAX_ARTIFACT_PATH_LEN == 4096
MAX_ARTIFACT_DESC_LEN == 1024
MAX_VERSION_LEN == 64
MAX_TAG_LEN == 32
MAX_TAGS_PER_MESSAGE == 10
MAX_REFS_PER_ENTITY == 20

validate_agent_id(id) ==
    IF Len(id) = 0 THEN Err("InvalidInput", "agent ID cannot be empty")
    ELSE IF Len(id) > MAX_AGENT_ID_LEN THEN Err("InvalidInput", "agent ID too long")
    ELSE IF AnyChar(id, is_control)
         THEN Err("InvalidInput", "agent ID contains control characters")
    ELSE Ok(<<>>)

validate_task(task) ==
    IF Len(task) > MAX_TASK_LEN THEN Err("InvalidInput", "task too long")
    ELSE Ok(<<>>)

validate_blockers(blockers) ==
    IF Len(blockers) > MAX_BLOCKERS_LEN THEN Err("InvalidInput", "blockers too long")
    ELSE Ok(<<>>)

validate_message_content(content) ==
    IF Len(content) = 0 THEN Err("InvalidInput", "message content cannot be empty")
    ELSE IF Len(content) > MAX_MESSAGE_CONTENT_LEN
         THEN Err("InvalidInput", "message content too long")
    ELSE Ok(<<>>)

validate_artifact_description(desc) ==
    IF Len(desc) > MAX_ARTIFACT_DESC_LEN
    THEN Err("InvalidInput", "artifact description too long")
    ELSE Ok(<<>>)

validate_version(version) ==
    IF Len(version) > MAX_VERSION_LEN THEN Err("InvalidInput", "version too long")
    ELSE Ok(<<>>)

tag_invalid_char(c) == is_control(c) \/ is_whitespace(c)

\* The verdict on one tag, in the order of the loop body.
validate_tag(tag) ==
    IF Len(tag) = 0 THEN Err("InvalidInput", "tag cannot be empty")
    ELSE IF Len(tag) > MAX_TAG_LEN THEN Err("InvalidInput", "tag too long")
    ELSE IF AnyChar(tag, tag_invalid_char)
         THEN Err("InvalidInput", "tag contains invalid characters")
    ELSE Ok(<<>>)

validate_tags(tags) ==
    IF Len(tags) > MAX_TAGS_PER_MESSAGE THEN Err("InvalidInput", "too many tags")
    ELSE IF \E i \in 1..Len(tags) : ~validate_tag(tags[i]).ok
         THEN LET first == CHOOSE i \in 1..Len(tags) :
                               /\ ~validate_tag(tags[i]).ok
                               /\ \A j \in 1..(i-1) : validate_tag(tags[j]).ok
              IN validate_tag(tags[first])
    ELSE Ok(<<>>)


\* The project directory as the path checks see it: the relative paths that
\* name an existing file inside the project, and those that exist but
\* canonicalize to a place outside of it (a symlink leading out).
FilesInside == { <<"f">>, <<"g">>, <<"d", "/", "f">> }
FilesEscaping == { <<"l">> }

is_absolute(path) == Len(path) > 0 /\ path[1] = "/"
contains_dotdot(path) == \E i \in 1..(Len(path) - 1) : path[i] = "." /\ path[i+1] = "."

\* A check of the text of the path alone, which does not resolve it.
validate_artifact_path_unresolved(path) ==
    IF Len(path) = 0 THEN Err("InvalidInput", "artifact path cannot be empty")
    ELSE IF Len(path) > MAX_ARTIFACT_PATH_LEN
         THEN Err("InvalidInput", "artifact path too long")
    ELSE IF is_absolute(path) THEN Err("PathTraversal", "absolute path not allowed")
    ELSE IF contains_dotdot(path) THEN Err("PathTraversal", "path traversal not allowed")
    ELSE Ok(path)

validate_artifact_path(path) ==
    IF Len(path) = 0 THEN Err("InvalidInput", "artifact path cannot be empty")
    ELSE IF Len(path) > MAX_ARTIFACT_PATH_LEN
         THEN Err("InvalidInput", "artifact path too long")
    ELSE IF is_absolute(path) THEN Err("PathTraversal", "absolute path not allowed")
    ELSE IF contains_dotdot(path) THEN Err("PathTraversal", "path traversal not allowed")
    ELSE IF path \notin (FilesInside \cup FilesEscaping)
         THEN Err("InvalidInput", "invalid path")
    ELSE IF path \in FilesEscaping
         THEN Err("PathTraversal", "path escapes project directory")
    ELSE Ok(path)

----------------------------------------------------------------------------
(* mcp/identity.rs *)

\* A resolver that looks at the environment before the --agent option.
resolve_env_first(fixed, env, res) == OptOr(OptOr(env, fixed), res)

resolve(fixed, env, res) == OptOr(OptOr(fixed, env), res)

\* An identify in which the last call wins over an earlier one.
identify_last_wins(fixed, env, res, agent_id) ==
    LET v == validate_agent_id(agent_id) IN
    IF ~v.ok THEN [res |-> v, resolved |-> res]
    ELSE IF IsSome(fixed)
         THEN [res |-> Err("InvalidInput", "identity already fixed by --agent"),
               resolved |-> res]
    ELSE IF IsSome(env)
         THEN IF Unwrap(env) # agent_id
              THEN [res |-> Err("InvalidInput", "cannot change identity set by BB_AGENT_ID"),
                    resolved |-> res]
              ELSE [res |-> Ok([agent_id |-> agent_id, source |-> "env"]),
                    resolved |-> res]
    ELSE [res |-> Ok([agent_id |-> agent_id, source |-> "identify"]),
          resolved |-> Some(agent_id)]

\* identify returns its Result together with the resolved slot it leaves.
identify(fixed, env, res, agent_id) ==
    LET v == validate_agent_id(agent_id) IN
    IF ~v.ok THEN [res |-> v, resolved |-> res]
    ELSE IF IsSome(fixed)
         THEN [res |-> Err("InvalidInput", "identity already fixed by --agent"),
               resolved |-> res]
    ELSE IF IsSome(env)
         THEN IF Unwrap(env) # agent_id
              THEN [res |-> Err("InvalidInput", "cannot change identity set by BB_AGENT_ID"),
                    resolved |-> res]
              ELSE [res |-> Ok([agent_id |-> agent_id, source |-> "env"]),
                    resolved |-> res]
    ELSE IF IsSome(res)
         THEN IF Unwrap(res) # agent_id
              THEN [res |-> Err("InvalidInput", "identity already set to a different value"),
                    resolved |-> res]
              ELSE [res |-> Ok([agent_id |-> agent_id, source |-> "identify"]),
                    resolved |-> res]
    ELSE [res |-> Ok([agent_id |-> agent_id, source |-> "identify"]),
          resolved |-> Some(agent_id)]

\* A require_identity that falls back to the CLI's default agent.
require_identity_or_human(fixed, env, res) ==
    LET r == resolve(fixed, env, res) IN
    Ok(IF IsSome(r) THEN Unwrap(r) ELSE <<"h", "u", "m", "a", "n">>)

require_identity(fixed, env, res) ==
    LET r == resolve(fixed, env, res) IN
    IF IsSome(r) THEN Ok(Unwrap(r)) ELSE Err("IdentityRequired", "")

----------------------------------------------------------------------------
(* core/models/agent.rs, db/queries/agent.rs, core/operations/agent.rs *)

AgentStatuses == {"Idle", "Planning", "Coding", "Testing", "Reviewing", "Blocked", "Offline"}

AgentStatus_as_str(s) ==
    CASE s = "Idle" -> "idle"
      [] s = "Planning" -> "planning"
      [] s = "Coding" -> "coding"
      [] s = "Testing" -> "testing"
      [] s = "Reviewing" -> "reviewing"
      [] s = "Blocked" -> "blocked"
      [] s = "Offline" -> "offline"

\* Input spellings are lower-cased first; "Coding" and "CODING" stand for
\* the mixed-case spellings a caller may send.
to_lowercase(s) ==
    CASE s \in {"Coding", "CODING"} -> "coding"
      [] s \in {"Blocked", "BLOCKED"} -> "blocked"
      [] s \in {"High", "HIGH"} -> "high"
      [] OTHER -> s

AgentStatus_from_str(s) ==
    LET l == to_lowercase(s) IN
    CASE l = "idle" -> "Idle"
      [] l = "planning" -> "Planning"
      [] l = "coding" -> "Coding"
      [] l = "testing" -> "Testing"
      [] l = "reviewing" -> "Reviewing"
      [] l = "blocked" -> "Blocked"
      [] l = "offline" -> "Offline"
      [] OTHER -> "Idle"

Agent_new(id, t) ==
    [id |-> id, current_task |-> <<>>, progress |-> 0, status |-> "Idle",
     blockers |-> None, last_seen |-> t, updated_at |-> t]

\* The row upsert_agent binds for an Agent.
agent_to_row(a) ==
    [current_task |-> a.current_task, progress |-> a.progress,
     status |-> AgentStatus_as_str(a.status), blockers |-> a.blockers,
     last_seen |-> a.last_seen, updated_at |-> a.updated_at]

row_to_agent(id, r) ==
    [id |-> id, current_task |-> r.current_task, progress |-> r.progress,
     status |-> AgentStatus_from_str(r.status), blockers |-> r.blockers,
     last_seen |-> r.last_seen, updated_at |-> r.updated_at]

\* INSERT ... ON CONFLICT(id) DO UPDATE SET every column.
upsert_agent(ags, a) ==
    [x \in (DOMAIN ags) \cup {a.id} |-> IF x = a.id THEN agent_to_row(a) ELSE ags[x]]

get_agent_q(ags, id) ==
    IF id \in DOMAIN ags THEN Some(row_to_agent(id, ags[id])) ELSE None

Min(a, b) == IF a <= b THEN a ELSE b

\* update_agent_status between its get_agent and its upsert_agent: the
\* changes made to the Agent struct in memory, or the first validation error.
\* task, progress, status and blockers are Options.
status_changes(agent, task, progress, status, blockers, t) ==
    LET a1 == IF IsSome(task) THEN [agent EXCEPT !.current_task = Unwrap(task)] ELSE agent
        a2 == IF IsSome(progress)
              THEN [a1 EXCEPT !.progress = Min(Unwrap(progress), 100)] ELSE a1
        a3 == IF IsSome(status)
              THEN [a2 EXCEPT !.status = Unwrap(status),
                              !.blockers = IF Unwrap(status) # "Blocked"
                                           THEN None ELSE a2.blockers]
              ELSE a2
        a4 == IF IsSome(blockers) THEN [a3 EXCEPT !.blockers = blockers] ELSE a3
    IN  IF IsSome(task) /\ ~validate_task(Unwrap(task)).ok
        THEN validate_task(Unwrap(task))
        ELSE IF IsSome(blockers) /\ ~validate_blockers(Unwrap(blockers)).ok
        THEN validate_blockers(Unwrap(blockers))
        ELSE Ok([a4 EXCEPT !.last_seen = t, !.updated_at = t])

\* An update that records the agent as seen even if a validation fails.
update_agent_status_touching(ags, agent_id, task, progress, status, blockers, t) ==
    LET v == validate_agent_id(agent_id) IN
    IF ~v.ok THEN [res |-> v, agents |-> ags]
    ELSE LET found == get_agent_q(ags, agent_id)
             agent == IF IsSome(found) THEN Unwrap(found) ELSE Agent_new(agent_id, t)
             c == status_changes(agent, task, progress, status, blockers, t)
         IN  IF ~c.ok
             THEN [res |-> c, agents |-> upsert_agent(ags, [agent EXCEPT !.last_seen = t])]
             ELSE [res |-> c, agents |-> upsert_agent(ags, c.val)]

update_agent_status(ags, agent_id, task, progress, status, blockers, t) ==
    LET v == validate_agent_id(agent_id) IN
    IF ~v.ok THEN [res |-> v, agents |-> ags]
    ELSE LET found == get_agent_q(ags, agent_id)
             agent == IF IsSome(found) THEN Unwrap(found) ELSE Agent_new(agent_id, t)
             c == status_changes(agent, task, progress, status, blockers, t)
         IN  IF ~c.ok THEN [res |-> c, agents |-> ags]
             ELSE [res |-> c, agents |-> upsert_agent(ags, c.val)]

get_agent(ags, agent_id) ==
    LET v == validate_agent_id(agent_id) IN
    IF ~v.ok THEN v ELSE Ok(get_agent_q(ags, agent_id))

\* A touch that sweeps the table as well.
touch_agent_sweeping(ags, agent_id, t) ==
    LET v == validate_agent_id(agent_id) IN
    IF ~v.ok THEN [res |-> v, agents |-> ags]
    ELSE LET found == get_agent_q(ags, agent_id)
             agent == IF IsSome(found) THEN Unwrap(found) ELSE Agent_new(agent_id, t)
             up == upsert_agent(ags, [agent EXCEPT !.last_seen = t])
         IN  [res |-> Ok(<<>>),
              agents |-> [x \in DOMAIN up |->
                             IF up[x].last_seen < t - 1800
                             THEN [up[x] EXCEPT !.status = "offline"]
                             ELSE up[x]]]

\* A touch that brings an offline agent back to idle.
touch_agent_waking(ags, agent_id, t) ==
    LET v == validate_agent_id(agent_id) IN
    IF ~v.ok THEN [res |-> v, agents |-> ags]
    ELSE LET found == get_agent_q(ags, agent_id)
             agent == IF IsSome(found) THEN Unwrap(found) ELSE Agent_new(agent_id, t)
             woken == IF agent.status = "Offline" THEN "Idle" ELSE agent.status
         IN  [res |-> Ok(<<>>),
              agents |-> upsert_agent(ags, [agent EXCEPT !.last_seen = t,
                                                         !.status = woken])]

touch_agent(ags, agent_id, t) ==
    LET v == validate_agent_id(agent_id) IN
    IF ~v.ok THEN [res |-> v, agents |-> ags]
    ELSE LET found == get_agent_q(ags, agent_id)
             agent == IF IsSome(found) THEN Unwrap(found) ELSE Agent_new(agent_id, t)
         IN  [res |-> Ok(<<>>),
              agents |-> upsert_agent(ags, [agent EXCEPT !.last_seen = t])]


LIVENESS_ACTIVE_MINUTES == 5
LIVENESS_STALE_MINUTES == 30

\* The clock of the model counts seconds.
SECONDS_PER_MINUTE == 60

\* TimeDelta::num_minutes: the whole minutes in d seconds, rounded towards zero.
num_minutes(d) ==
    IF d >= 0 THEN d \div SECONDS_PER_MINUTE ELSE -((-d) \div SECONDS_PER_MINUTE)

\* A sweep that resets the blockers of the agents it sets to offline.
update_offline_status_clearing(ags, stale_minutes, t) ==
    [x \in DOMAIN ags |->
        IF /\ ags[x].status # "offline"
           /\ ags[x].last_seen < t - stale_minutes * SECONDS_PER_MINUTE
        THEN [ags[x] EXCEPT !.status = "offline", !.blockers = None]
        ELSE ags[x]]

\* UPDATE agents SET status = 'offline' WHERE status != 'offline'
\*   AND datetime(last_seen) < datetime('now', '-<stale_minutes> minutes')
\* (datetime() renders both instants to the second.)
update_offline_status(ags, stale_minutes, t) ==
    [x \in DOMAIN ags |->
        IF /\ ags[x].status # "offline"
           /\ ags[x].last_seen < t - stale_minutes * SECONDS_PER_MINUTE
        THEN [ags[x] EXCEPT !.status = "offline"]
        ELSE ags[x]]

\* SELECT ... FROM agents (the ORDER BY is applied by the readers of the list).
get_all_agents(ags) == { row_to_agent(x, ags[x]) : x \in DOMAIN ags }

\* A list-all that reads the rows before it sweeps them.
get_all_agents_then_sweep(ags, t) ==
    [res |-> Ok(get_all_agents(ags)),
     agents |-> update_offline_status(ags, LIVENESS_STALE_MINUTES, t)]

get_all_agents_with_liveness(ags, t) ==
    LET swept == update_offline_status(ags, LIVENESS_STALE_MINUTES, t)
    IN  [res |-> Ok(get_all_agents(swept)), agents |-> swept]

classify_liveness(last_seen, t) ==
    LET minutes == num_minutes(t - last_seen) IN
    IF minutes <= LIVENESS_ACTIVE_MINUTES THEN "Active"
    ELSE IF minutes <= LIVENESS_STALE_MINUTES THEN "Stale"
    ELSE "Offline"

----------------------------------------------------------------------------
(* core/models/message.rs, db/queries/message.rs, core/operations/message.rs *)

Priorities == {"Low", "Normal", "High", "Critical"}

Priority_as_str(p) ==
    CASE p = "Low" -> "low"
      [] p = "Normal" -> "normal"
      [] p = "High" -> "high"
      [] p = "Critical" -> "critical"

Priority_parse(s) ==
    LET l == to_lowercase(s) IN
    CASE l = "low" -> "Low"
      [] l = "normal" -> "Normal"
      [] l = "high" -> "High"
      [] l = "critical" -> "Critical"
      [] OTHER -> "Normal"

\* The rowid the store gives to a new row of a table whose highest rowid
\* handed out so far is seq.
next_rowid(seq) == seq + 1

\* A lookup that is content with any stored message.
get_message_any(msgs, id) ==
    IF msgs # {} THEN Some(CHOOSE m \in msgs : TRUE) ELSE None

get_message(msgs, id) ==
    IF \E m \in msgs : m.id = id
    THEN Some(CHOOSE m \in msgs : m.id = id)
    ELSE None

\* An insert that numbers the new row by the count of the rows.
insert_message_counting(msgs, seq, m) ==
    LET id == Cardinality(msgs) + 1 IN
    [id |-> id,
     messages |-> msgs \cup {[id |-> id, from_agent |-> m.from_agent,
                              content |-> m.content, tags |-> m.tags,
                              priority |-> Priority_as_str(m.priority),
                              in_reply_to |-> m.in_reply_to, refs |-> m.refs,
                              created_at |-> m.created_at]},
     msg_seq |-> id]

\* INSERT INTO messages ...; last_insert_rowid()
insert_message(msgs, seq, m) ==
    LET id == next_rowid(seq) IN
    [id |-> id,
     messages |-> msgs \cup {[id |-> id, from_agent |-> m.from_agent,
                              content |-> m.content, tags |-> m.tags,
                              priority |-> Priority_as_str(m.priority),
                              in_reply_to |-> m.in_reply_to, refs |-> m.refs,
                              created_at |-> m.created_at]},
     msg_seq |-> id]

post_message(msgs, seq, from_agent, content, tags, priority, in_reply_to, refs, t) ==
    LET vc == validate_message_content(content)
        vt == validate_tags(tags)
        fail(e) == [res |-> e, messages |-> msgs, msg_seq |-> seq]
    IN  IF ~vc.ok THEN fail(vc)
        ELSE IF ~vt.ok THEN fail(vt)
        ELSE IF Len(refs) > MAX_REFS_PER_ENTITY
             THEN fail(Err("InvalidInput", "too many refs"))
        ELSE IF IsSome(in_reply_to) /\ ~IsSome(get_message(msgs, Unwrap(in_reply_to)))
             THEN fail(Err("NotFound", "message not found"))
        ELSE LET message == [id |-> 0, from_agent |-> from_agent, content |-> content,
                             tags |-> tags, priority |-> priority,
                             in_reply_to |-> in_reply_to, refs |-> refs,
                             created_at |-> t]
                 ins == insert_message(msgs, seq, message)
             IN  [res |-> Ok([message EXCEPT !.id = ins.id]),
                  messages |-> ins.messages, msg_seq |-> ins.msg_seq]

----------------------------------------------------------------------------
(* core/models/artifact.rs, db/queries/artifact.rs, core/operations/artifact.rs *)

\* An upsert that keeps the version of the row when the new one has none.
upsert_artifact_merging(arts, seq, a) ==
    LET fresh == a.path \notin DOMAIN arts
        id == IF fresh THEN next_rowid(seq) ELSE arts[a.path].id
        row == [id |-> id, produced_by |-> a.produced_by,
                description |-> a.description,
                version |-> IF fresh THEN a.version ELSE OptOr(a.version, arts[a.path].version),
                refs |-> a.refs, created_at |-> a.created_at]
    IN  [artifacts |-> [x \in (DOMAIN arts) \cup {a.path} |->
                            IF x = a.path THEN row ELSE arts[x]],
         art_seq |-> IF fresh THEN id ELSE seq]

\* INSERT ... ON CONFLICT(path) DO UPDATE SET every column but id and path.
upsert_artifact(arts, seq, a) ==
    LET fresh == a.path \notin DOMAIN arts
        id == IF fresh THEN next_rowid(seq) ELSE arts[a.path].id
        row == [id |-> id, produced_by |-> a.produced_by,
                description |-> a.description, version |-> a.version,
                refs |-> a.refs, created_at |-> a.created_at]
    IN  [artifacts |-> [x \in (DOMAIN arts) \cup {a.path} |->
                            IF x = a.path THEN row ELSE arts[x]],
         art_seq |-> IF fresh THEN id ELSE seq]

get_artifact_by_path(arts, path) ==
    IF path \in DOMAIN arts
    THEN Some([id |-> arts[path].id, path |-> path,
               produced_by |-> arts[path].produced_by,
               description |-> arts[path].description,
               version |-> arts[path].version, refs |-> arts[path].refs,
               created_at |-> arts[path].created_at])
    ELSE None

register_artifact(arts, seq, path, produced_by, description, version, refs, t) ==
    LET vp == validate_artifact_path(path)
        vd == validate_artifact_description(description)
        fail(e) == [res |-> e, artifacts |-> arts, art_seq |-> seq]
    IN  IF ~vp.ok THEN fail(vp)
        ELSE IF ~vd.ok THEN fail(vd)
        ELSE IF IsSome(version) /\ ~validate_version(Unwrap(version)).ok
             THEN fail(validate_version(Unwrap(version)))
        ELSE IF Len(refs) > MAX_REFS_PER_ENTITY
             THEN fail(Err("InvalidInput", "too many refs"))
        ELSE LET artifact == [id |-> 0, path |-> path, produced_by |-> produced_by,
                              description |-> description, version |-> version,
                              refs |-> refs, created_at |-> t]
                 up == upsert_artifact(arts, seq, artifact)
                 got == get_artifact_by_path(up.artifacts, path)
             IN  [res |-> IF IsSome(got) THEN Ok(Unwrap(got))
                          ELSE Err("NotFound", "artifact not found after upsert"),
                  artifacts |-> up.artifacts, art_seq |-> up.art_seq]


----------------------------------------------------------------------------
(* util/duration.rs *)

Digits == {"0", "1", "2", "3", "4", "5", "6", "7", "8", "9"}
DurationUnits == {"s", "m", "h", "d", "w"}

\* parse_duration, as far as its verdict goes: a non-empty run of digits
\* followed by one unit character (the input texts here carry no blanks to trim).
parse_duration(s) ==
    IF Len(s) = 0 THEN Err("InvalidInput", "empty duration")
    ELSE IF Len(s) = 1 \/ \E i \in 1..(Len(s) - 1) : s[i] \notin Digits
         THEN Err("InvalidInput", "invalid duration number")
    ELSE IF s[Len(s)] \notin DurationUnits
         THEN Err("InvalidInput", "invalid duration unit")
    ELSE Ok(<<>>)

----------------------------------------------------------------------------
(* JSON values as the dispatcher sees them: a record whose one field names *)
(* the type and holds the payload.  An object is a record of such values.  *)

JNull == [null |-> TRUE]
JStr(s) == [str |-> s]
JNum(n) == [num |-> n]
JArr(a) == [arr |-> a]

HasKey(o, k) == k \in DOMAIN o
\* The payload of a tagged value.
JVal(x) == IF "str" \in DOMAIN x THEN x.str
           ELSE IF "num" \in DOMAIN x THEN x.num
           ELSE IF "arr" \in DOMAIN x THEN x.arr
           ELSE <<>>
\* A field of type String: present and a string.
ReqStr(o, k) == HasKey(o, k) /\ "str" \in DOMAIN o[k]
\* A field of type Option<T>: absent, null, or of the type tagged ty.
OptIs(o, k, ty) == ~HasKey(o, k) \/ "null" \in DOMAIN o[k] \/ ty \in DOMAIN o[k]
OptGet(o, k) ==
    IF HasKey(o, k) /\ "null" \notin DOMAIN o[k] THEN Some(JVal(o[k])) ELSE None

U8_MAX == 255

ParseError == Err("InvalidInput", "Parse error")
MissingParams == Err("InvalidInput", "Missing params")

\* serde_json::from_value::<IdentifyInput>
de_IdentifyInput(o) ==
    IF ReqStr(o, "agent_id") THEN Ok([agent_id |-> o.agent_id.str]) ELSE ParseError

\* serde_json::from_value::<SetStatusInput>
de_SetStatusInput(o) ==
    IF /\ OptIs(o, "current_task", "str")
       /\ OptIs(o, "progress", "num")
       /\ (IsSome(OptGet(o, "progress")) => o.progress.num \in 0..U8_MAX)
       /\ OptIs(o, "status", "str")
       /\ OptIs(o, "blockers", "str")
    THEN Ok([current_task |-> OptGet(o, "current_task"),
             progress |-> OptGet(o, "progress"),
             status |-> OptGet(o, "status"),
             blockers |-> OptGet(o, "blockers")])
    ELSE ParseError

\* serde_json::from_value::<GetStatusInput>(v).unwrap_or_default()
de_GetStatusInput(o) ==
    IF OptIs(o, "agent_id", "str")
    THEN [agent_id |-> OptGet(o, "agent_id")]
    ELSE [agent_id |-> None]

\* serde_json::from_value::<RefInput>: the fields are where_, what and ref_.
de_RefInput_ok(r) == ReqStr(r, "where_") /\ ReqStr(r, "what") /\ HasKey(r, "ref_")

\* Vec<RefInput> -> Vec<Reference>
to_refs(rs) ==
    [i \in 1..Len(rs) |-> [where_ |-> rs[i].where_.str, what |-> rs[i].what.str,
                           ref_ |-> rs[i].ref_]]

refs_ok(o) ==
    /\ OptIs(o, "refs", "arr")
    /\ IsSome(OptGet(o, "refs")) => \A i \in 1..Len(o.refs.arr) : de_RefInput_ok(o.refs.arr[i])

\* serde_json::from_value::<PostMessageInput>
de_PostMessageInput(o) ==
    IF /\ ReqStr(o, "content")
       /\ OptIs(o, "tags", "arr")
       /\ OptIs(o, "priority", "str")
       /\ OptIs(o, "reply_to", "num")
       /\ refs_ok(o)
    THEN Ok([content |-> o.content.str, tags |-> OptGet(o, "tags"),
             priority |-> OptGet(o, "priority"), reply_to |-> OptGet(o, "reply_to"),
             refs |-> OptGet(o, "refs")])
    ELSE ParseError

\* serde_json::from_value::<RegisterArtifactInput>
de_RegisterArtifactInput(o) ==
    IF /\ ReqStr(o, "path")
       /\ ReqStr(o, "description")
       /\ OptIs(o, "version", "str")
       /\ refs_ok(o)
    THEN Ok([path |-> o.path.str, description |-> o.description.str,
             version |-> OptGet(o, "version"), refs |-> OptGet(o, "refs")])
    ELSE ParseError

\* serde_json::from_value::<ReadMessagesInput>(v).unwrap_or_default(): of the
\* fields, since is the one that can make the tool fail.
de_ReadMessagesInput(o) ==
    IF OptIs(o, "since", "str") THEN [since |-> OptGet(o, "since")]
    ELSE [since |-> None]

\* serde_json::from_value::<FindRefsInput>: the fields are where_, what and ref_.
de_FindRefsInput(o) ==
    IF ReqStr(o, "where_") /\ ReqStr(o, "what") /\ ReqStr(o, "ref_")
    THEN Ok([where_ |-> o.where_.str, what |-> o.what.str, ref_ |-> o.ref_.str])
    ELSE ParseError


----------------------------------------------------------------------------
(* Numbers as text: str::parse::<i64>, i64::to_string, CAST(x AS TEXT) *)

is_ascii_digit(c) == c \in Digits

DigitValue(c) ==
    CASE c = "0" -> 0 [] c = "1" -> 1 [] c = "2" -> 2 [] c = "3" -> 3
      [] c = "4" -> 4 [] c = "5" -> 5 [] c = "6" -> 6 [] c = "7" -> 7
      [] c = "8" -> 8 [] c = "9" -> 9

DigitChar(n) == CHOOSE c \in Digits : DigitValue(c) = n

\* The digits of i64::MAX and of the magnitude of i64::MIN.
I64_MAX_DIGITS == <<"9", "2", "2", "3", "3", "7", "2", "0", "3", "6", "8", "5",
                    "4", "7", "7", "5", "8", "0", "7">>
I64_MIN_DIGITS == [I64_MAX_DIGITS EXCEPT ![19] = "8"]

RECURSIVE strip_zeros(_)
strip_zeros(s) ==
    IF Len(s) > 1 /\ s[1] = "0" THEN strip_zeros(Tail(s)) ELSE s

\* a <= b for two digit texts of one length
RECURSIVE digits_le(_, _)
digits_le(a, b) ==
    IF Len(a) = 0 THEN TRUE
    ELSE IF a[1] # b[1] THEN DigitValue(a[1]) < DigitValue(b[1])
    ELSE digits_le(Tail(a), Tail(b))

\* The magnitude is within the 64 bits of the type.
fits_i64(digits, negative) ==
    LET t == strip_zeros(digits)
        limit == IF negative THEN I64_MIN_DIGITS ELSE I64_MAX_DIGITS
    IN  Len(t) < Len(limit) \/ (Len(t) = Len(limit) /\ digits_le(t, limit))

\* The value of a digit text (of at most nine digits in the inputs drawn here).
RECURSIVE atoi(_)
atoi(s) ==
    IF Len(s) = 0 THEN 0
    ELSE atoi(SubSeq(s, 1, Len(s) - 1)) * 10 + DigitValue(s[Len(s)])

RECURSIVE itoa(_)
itoa(n) == IF n < 10 THEN <<DigitChar(n)>> ELSE itoa(n \div 10) \o <<DigitChar(n % 10)>>

\* i64::to_string, and CAST(n AS TEXT) of an SQL INTEGER
to_string(n) == IF n < 0 THEN <<"-">> \o itoa(0 - n) ELSE itoa(n)

\* str::parse::<i64>: an optional sign, then one or more ASCII digits whose
\* value fits the type.
parse_i64(s) ==
    LET signed == Len(s) > 0 /\ s[1] \in {"+", "-"}
        negative == Len(s) > 0 /\ s[1] = "-"
        digits == IF signed THEN Tail(s) ELSE s
    IN  IF Len(digits) = 0 \/ \E i \in 1..Len(digits) : ~is_ascii_digit(digits[i])
        THEN Err("ParseIntError", "invalid digit")
        ELSE IF ~fits_i64(digits, negative)
             THEN Err("ParseIntError", "number too large")
        ELSE Ok(IF negative THEN 0 - atoi(digits) ELSE atoi(digits))

----------------------------------------------------------------------------
(* util/ref_.rs *)

\* str::split(c): the texts between the separators, one more than there are
\* separators.
RECURSIVE split(_, _)
split(s, c) ==
    IF \A i \in 1..Len(s) : s[i] # c THEN <<s>>
    ELSE LET k == CHOOSE i \in 1..Len(s) : s[i] = c /\ \A j \in 1..(i - 1) : s[j] # c
         IN  <<SubSeq(s, 1, k - 1)>> \o split(SubSeq(s, k + 1, Len(s)), c)

\* str::trim
RECURSIVE trim(_)
trim(s) ==
    IF Len(s) > 0 /\ is_whitespace(s[1]) THEN trim(Tail(s))
    ELSE IF Len(s) > 0 /\ is_whitespace(s[Len(s)]) THEN trim(SubSeq(s, 1, Len(s) - 1))
    ELSE s

\* The thread panics: Result::unwrap() on an Err value.
Panic == [ok |-> FALSE, kind |-> "panic", msg |-> "unwrap on Err", val |-> <<>>]

parse_ref(s) ==
    LET parts == split(s, ":") IN
    IF Len(parts) # 3 THEN Err("InvalidRefFormat", s)
    ELSE LET where_ == trim(parts[1])
             what == trim(parts[2])
             ref_str == trim(parts[3])
         IN  IF Len(where_) = 0 \/ Len(what) = 0 \/ Len(ref_str) = 0
             THEN Err("InvalidRefFormat", s)
             ELSE IF \A i \in 1..Len(ref_str) : is_ascii_digit(ref_str[i])
                  THEN \* ref_str.parse::<i64>().unwrap()
                       IF parse_i64(ref_str).ok
                       THEN Ok([where_ |-> where_, what |-> what,
                                ref_ |-> JNum(parse_i64(ref_str).val)])
                       ELSE Panic
             ELSE Ok([where_ |-> where_, what |-> what, ref_ |-> JStr(ref_str)])

----------------------------------------------------------------------------
(* db/queries/message.rs: list_messages, find_messages_by_ref,             *)
(* delete_messages_before.  created_at is stored as RFC 3339 text in UTC,  *)
(* whose order as text is the order of the instants; the model keeps the   *)
(* instant.                                                                *)

\* limit.min(100)
MAX_LIST_ROWS == 100

Priority_level(p) ==
    CASE p = "Low" -> 0
      [] p = "Normal" -> 1
      [] p = "High" -> 2
      [] p = "Critical" -> 3

\* CASE m.priority WHEN 'critical' THEN 4 ... WHEN 'low' THEN 1 END
sql_priority_case(s) ==
    CASE s = "critical" -> 4
      [] s = "high" -> 3
      [] s = "normal" -> 2
      [] s = "low" -> 1
      [] OTHER -> 0

\* json_extract(value, '$.ref') = ?  with a parameter that is an INTEGER when
\* the text parses as i64 and TEXT otherwise: values of two types differ.
ref_equals_param(stored, ref_val) ==
    LET n == parse_i64(ref_val) IN
    IF n.ok THEN "num" \in DOMAIN stored /\ stored.num = n.val
    ELSE "str" \in DOMAIN stored /\ stored.str = ref_val

\* EXISTS (SELECT 1 FROM json_each(refs) WHERE where = ? AND what = ? AND ref = ?)
has_ref_exact(refs, where_, what, ref_val) ==
    \E i \in 1..Len(refs) :
        /\ refs[i].where_ = where_
        /\ refs[i].what = what
        /\ ref_equals_param(refs[i].ref_, ref_val)

\* A WHERE clause that tests each part of the reference it is given.
where_messages_by_part(m, since, tags, from_agent, priority, ref_where, ref_what, ref_ref) ==
    /\ IsSome(since) => m.created_at >= Unwrap(since)
    /\ IsSome(from_agent) => m.from_agent = Unwrap(from_agent)
    /\ IsSome(priority) => sql_priority_case(m.priority) >= Priority_level(Unwrap(priority))
    /\ Len(tags) > 0 =>
         \E i \in 1..Len(m.tags) : \E j \in 1..Len(tags) : m.tags[i] = tags[j]
    /\ (IsSome(ref_where) \/ IsSome(ref_what) \/ IsSome(ref_ref)) =>
         \E i \in 1..Len(m.refs) :
             /\ IsSome(ref_where) => m.refs[i].where_ = Unwrap(ref_where)
             /\ IsSome(ref_what) => m.refs[i].what = Unwrap(ref_what)
             /\ IsSome(ref_ref) => ref_equals_param(m.refs[i].ref_, Unwrap(ref_ref))

\* The WHERE clause list_messages builds: each part is there when its
\* filter is given.
where_messages(m, since, tags, from_agent, priority, ref_where, ref_what, ref_ref) ==
    /\ IsSome(since) => m.created_at >= Unwrap(since)
    /\ IsSome(from_agent) => m.from_agent = Unwrap(from_agent)
    /\ IsSome(priority) => sql_priority_case(m.priority) >= Priority_level(Unwrap(priority))
    /\ Len(tags) > 0 =>
         \E i \in 1..Len(m.tags) : \E j \in 1..Len(tags) : m.tags[i] = tags[j]
    /\ (IsSome(ref_where) /\ IsSome(ref_what) /\ IsSome(ref_ref)) =>
         has_ref_exact(m.refs, Unwrap(ref_where), Unwrap(ref_what), Unwrap(ref_ref))

\* The orders of the rows of one created_at.
RECURSIVE any_order(_)
any_order(rows) ==
    IF rows = {} THEN {<<>>}
    ELSE UNION { {<<r>> \o s : s \in any_order(rows \ {r})} : r \in rows }

\* ORDER BY created_at DESC: the possible orders, one for each order the
\* store may give to rows of one created_at.  The rows are split at a
\* median created_at.
RECURSIVE order_by_created_at_desc(_)
order_by_created_at_desc(rows) ==
    IF rows = {} THEN {<<>>}
    ELSE LET times == {r.created_at : r \in rows}
             t == CHOOSE x \in times :
                     /\ 2 * Cardinality({u \in times : u > x}) <= Cardinality(times)
                     /\ 2 * Cardinality({u \in times : u < x}) <= Cardinality(times)
         IN  { a \o b \o c :
                 a \in order_by_created_at_desc({r \in rows : r.created_at > t}),
                 b \in any_order({r \in rows : r.created_at = t}),
                 c \in order_by_created_at_desc({r \in rows : r.created_at < t}) }

\* An order that puts the oldest rows first.
oldest_first(rows, k) ==
    { [i \in 1..Min(k, Len(s)) |-> s[Len(s) + 1 - i]] : s \in order_by_created_at_desc(rows) }

\* ORDER BY created_at DESC LIMIT k
newest_first(rows, k) ==
    { SubSeq(s, 1, Min(k, Len(s))) : s \in order_by_created_at_desc(rows) }

\* The results list_messages may return.
list_messages(msgs, since, tags, from_agent, priority, ref_where, ref_what, ref_ref, limit) ==
    newest_first({m \in msgs : where_messages(m, since, tags, from_agent, priority,
                                              ref_where, ref_what, ref_ref)},
                 Min(limit, MAX_LIST_ROWS))

\* The text both sides of the comparison are cast to: n.to_string() or the
\* string of the lookup, CAST(... AS TEXT) of the stored value.
ref_text(v) == IF "num" \in DOMAIN v THEN to_string(v.num) ELSE v.str

\* A comparison that tells a number from a string.
ref_same_typed(a, b) == a = b

ref_same_text(a, b) == ref_text(a) = ref_text(b)

has_ref_text(refs, where_, what, ref_) ==
    \E i \in 1..Len(refs) :
        /\ refs[i].where_ = where_
        /\ refs[i].what = what
        /\ ref_same_text(refs[i].ref_, ref_)

\* The rows are all returned; their order is by created_at, descending.
find_messages_by_ref(msgs, where_, what, ref_) ==
    {m \in msgs : has_ref_text(m.refs, where_, what, ref_)}

\* A deletion up to and including the cutoff.
delete_messages_through(msgs, before) == {m \in msgs : ~(m.created_at <= before)}

\* DELETE FROM messages WHERE created_at < ?1
delete_messages_before(msgs, before) == {m \in msgs : ~(m.created_at < before)}

----------------------------------------------------------------------------
(* db/queries/artifact.rs: list_artifacts, find_artifacts_by_ref;          *)
(* core/operations/reference.rs                                            *)

\* The rows of the artifacts table.
artifact_rows(arts) == { Unwrap(get_artifact_by_path(arts, p)) : p \in DOMAIN arts }

where_artifacts(a, produced_by, ref_where, ref_what, ref_ref) ==
    /\ IsSome(produced_by) => a.produced_by = Unwrap(produced_by)
    /\ (IsSome(ref_where) /\ IsSome(ref_what) /\ IsSome(ref_ref)) =>
         has_ref_exact(a.refs, Unwrap(ref_where), Unwrap(ref_what), Unwrap(ref_ref))

\* The results list_artifacts may return.
list_artifacts(arts, produced_by, ref_where, ref_what, ref_ref, limit) ==
    newest_first({a \in artifact_rows(arts) :
                     where_artifacts(a, produced_by, ref_where, ref_what, ref_ref)},
                 Min(limit, MAX_LIST_ROWS))

find_artifacts_by_ref(arts, where_, what, ref_) ==
    {a \in artifact_rows(arts) : has_ref_text(a.refs, where_, what, ref_)}

find_references(msgs, arts, where_, what, ref_) ==
    [messages |-> find_messages_by_ref(msgs, where_, what, ref_),
     artifacts |-> find_artifacts_by_ref(arts, where_, what, ref_)]

----------------------------------------------------------------------------
(* mcp/tools.rs.  A tool works on S, the session's resolved slot and the   *)
(* tables, in the context C = [fixed, env, bb, t]: the two immutable       *)
(* identities, whether the .bb directory exists, and the clock.  It        *)
(* returns its Result and the S it leaves.                                 *)

\* with_connection: f runs only if the .bb directory exists.
\* The failures of an operation that come after its first statement.
AfterFirstStatement == {"task too long", "blockers too long"}

\* r is what the closure returns and leaves on a store that has its tables.
\* Connection::open creates the file if it is missing; on a file without
\* tables the closure gets as far as its first statement.
with_connection(C, S, r) ==
    IF ~C.bb THEN [res |-> Err("NotInitialized", ""), st |-> S]
    ELSE IF ~S.db_tables
         THEN [res |-> IF /\ ~r.res.ok
                          /\ r.res.kind \in {"InvalidInput", "PathTraversal"}
                          /\ r.res.msg \notin AfterFirstStatement
                       THEN r.res
                       ELSE Err("SqliteError", "no such table"),
               st |-> [S EXCEPT !.db_file = TRUE]]
    ELSE r

tool_identify(C, S, input) ==
    LET r == identify(C.fixed, C.env, S.resolved, input.agent_id)
    IN  [res |-> r.res, st |-> [S EXCEPT !.resolved = r.resolved]]

tool_set_status(C, S, input) ==
    LET rid == require_identity(C.fixed, C.env, S.resolved) IN
    IF ~rid.ok THEN [res |-> rid, st |-> S]
    ELSE LET status == IF IsSome(input.status)
                       THEN Some(AgentStatus_from_str(Unwrap(input.status)))
                       ELSE None
             u == update_agent_status(S.agents, rid.val, input.current_task,
                                      input.progress, status, input.blockers, C.t)
         IN  with_connection(C, S, [res |-> u.res, st |-> [S EXCEPT !.agents = u.agents]])

\* Agent -> AgentWithLiveness
with_liveness(a, t) ==
    [agent |-> a, liveness |-> classify_liveness(a.last_seen, t),
     minutes_since_last_seen |-> num_minutes(t - a.last_seen)]

tool_get_status(C, S, input) ==
    LET who == resolve(C.fixed, C.env, S.resolved)
        \* the touch; its Result is dropped
        touched == IF IsSome(who) /\ C.bb /\ S.db_tables
                   THEN touch_agent(S.agents, Unwrap(who), C.t).agents
                   ELSE S.agents
        S1 == [S EXCEPT !.agents = touched]
    IN  with_connection(C, S1,
          IF IsSome(input.agent_id)
          THEN LET g == get_agent(touched, Unwrap(input.agent_id)) IN
               IF ~g.ok THEN [res |-> g, st |-> S1]
               ELSE IF ~IsSome(g.val)
                    THEN [res |-> Err("NotFound", "agent not found"), st |-> S1]
               ELSE [res |-> Ok({with_liveness(Unwrap(g.val), C.t)}), st |-> S1]
          ELSE LET all == get_all_agents_with_liveness(touched, C.t) IN
               [res |-> Ok({with_liveness(a, C.t) : a \in all.res.val}),
                st |-> [S1 EXCEPT !.agents = all.agents]])

tool_post_message(C, S, input) ==
    LET rid == require_identity(C.fixed, C.env, S.resolved) IN
    IF ~rid.ok THEN [res |-> rid, st |-> S]
    ELSE LET priority == IF IsSome(input.priority)
                         THEN Priority_parse(Unwrap(input.priority)) ELSE "Normal"
             refs == IF IsSome(input.refs) THEN to_refs(Unwrap(input.refs)) ELSE <<>>
             tags == IF IsSome(input.tags) THEN Unwrap(input.tags) ELSE <<>>
             p == post_message(S.messages, S.msg_seq, rid.val, input.content, tags,
                               priority, input.reply_to, refs, C.t)
         IN  with_connection(C, S,
               [res |-> p.res,
                st |-> [S EXCEPT !.messages = p.messages, !.msg_seq = p.msg_seq]])

tool_register_artifact(C, S, input) ==
    LET rid == require_identity(C.fixed, C.env, S.resolved) IN
    IF ~rid.ok THEN [res |-> rid, st |-> S]
    ELSE LET refs == IF IsSome(input.refs) THEN to_refs(Unwrap(input.refs)) ELSE <<>>
             a == register_artifact(S.artifacts, S.art_seq, input.path, rid.val,
                                    input.description, input.version, refs, C.t)
         IN  with_connection(C, S,
               [res |-> a.res,
                st |-> [S EXCEPT !.artifacts = a.artifacts, !.art_seq = a.art_seq]])

\* The two listing tools read only; what they select is left out of val.
tool_read_messages(C, S, input) ==
    IF IsSome(input.since) /\ ~parse_duration(Unwrap(input.since)).ok
    THEN [res |-> parse_duration(Unwrap(input.since)), st |-> S]
    ELSE with_connection(C, S, [res |-> Ok(<<>>), st |-> S])

tool_list_artifacts(C, S) == with_connection(C, S, [res |-> Ok(<<>>), st |-> S])

\* The ref is looked up as a number when its text parses as i64.
tool_find_refs(C, S, input) ==
    LET n == parse_i64(input.ref_)
        ref_value == IF n.ok THEN JNum(n.val) ELSE JStr(input.ref_)
    IN  with_connection(C, S,
          [res |-> Ok(find_references(S.messages, S.artifacts, input.where_,
                                      input.what, ref_value)),
           st |-> S])

tool_summary(C, S) ==
    LET all == get_all_agents_with_liveness(S.agents, C.t) IN
    with_connection(C, S,
      [res |-> Ok({with_liveness(a, C.t) : a \in all.res.val}),
       st |-> [S EXCEPT !.agents = all.agents]])

----------------------------------------------------------------------------
(* mcp/server.rs *)

ToolNames == {"identify", "set_status", "get_status", "post_message",
              "read_messages", "register_artifact", "list_artifacts",
              "find_refs", "summary"}

\* BlackboardMcpServer::handle_request.  params is the Option holding the
\* "arguments" object of the call.
handle_request(C, S, method, params) ==
    LET fail(e) == [res |-> e, st |-> S]
        obj == IF IsSome(params) THEN Unwrap(params) ELSE <<>>
    IN
    CASE method = "identify" ->
           IF ~IsSome(params) THEN fail(MissingParams)
           ELSE IF ~de_IdentifyInput(obj).ok THEN fail(de_IdentifyInput(obj))
           ELSE tool_identify(C, S, de_IdentifyInput(obj).val)
      [] method = "set_status" ->
           IF ~IsSome(params) THEN fail(MissingParams)
           ELSE IF ~de_SetStatusInput(obj).ok THEN fail(de_SetStatusInput(obj))
           ELSE tool_set_status(C, S, de_SetStatusInput(obj).val)
      [] method = "get_status" -> tool_get_status(C, S, de_GetStatusInput(obj))
      [] method = "post_message" ->
           IF ~IsSome(params) THEN fail(MissingParams)
           ELSE IF ~de_PostMessageInput(obj).ok THEN fail(de_PostMessageInput(obj))
           ELSE tool_post_message(C, S, de_PostMessageInput(obj).val)
      [] method = "read_messages" -> tool_read_messages(C, S, de_ReadMessagesInput(obj))
      [] method = "register_artifact" ->
           IF ~IsSome(params) THEN fail(MissingParams)
           ELSE IF ~de_RegisterArtifactInput(obj).ok
                THEN fail(de_RegisterArtifactInput(obj))
           ELSE tool_register_artifact(C, S, de_RegisterArtifactInput(obj).val)
      [] method = "list_artifacts" -> tool_list_artifacts(C, S)
      [] method = "find_refs" ->
           IF ~IsSome(params) THEN fail(MissingParams)
           ELSE IF ~de_FindRefsInput(obj).ok THEN fail(de_FindRefsInput(obj))
           ELSE tool_find_refs(C, S, de_FindRefsInput(obj).val)
      [] method = "summary" -> tool_summary(C, S)
      [] OTHER -> fail(Err("InvalidInput", "Unknown method"))

\* The match of run_mcp_server that turns a BBError into a JSON-RPC code.
error_code(kind) ==
    CASE kind = "NotInitialized" -> -32001
      [] kind = "IdentityRequired" -> -32002
      [] kind = "InvalidInput" -> -32003
      [] kind = "NotFound" -> -32004
      [] kind = "InvalidRefFormat" -> -32005
      [] kind = "PathTraversal" -> -32006
      [] kind = "DatabaseBusy" -> -32007
      [] kind = "IoError" -> -32008
      [] kind = "SqliteError" -> -32009
      [] kind = "JsonError" -> -32010

PARSE_ERROR == -32700
METHOD_NOT_FOUND == -32601
NOT_INITIALIZED == -32001

\* A response line: the id it carries and its error code (0 for a result).
Response(id, code) == [id |-> id, code |-> code]

\* request.get("id").cloned(), as json! renders it: null when there is none.
\* A dispatcher that answers every request under the id 1.
request_id_one(l) == JNum(1)

request_id(l) == IF IsSome(l.id) THEN Unwrap(l.id) ELSE JNull

NoResult == [ok |-> FALSE, kind |-> "None", msg |-> "", val |-> <<>>]

TheStore == [db_file |-> db_file, db_tables |-> db_tables,
             resolved |-> resolved, agents |-> agents, messages |-> messages,
             msg_seq |-> msg_seq, artifacts |-> artifacts, art_seq |-> art_seq]
TheContext == [fixed |-> fixed_agent, env |-> env_agent, bb |-> bb_dir, t |-> now]

\* What one iteration of the read loop leaves in the session and the tables.
Leaves(S) ==
    /\ UNCHANGED <<fixed_agent, env_agent>>
    /\ db_file' = S.db_file
    /\ db_tables' = S.db_tables
    /\ resolved' = S.resolved
    /\ agents' = S.agents
    /\ messages' = S.messages
    /\ msg_seq' = S.msg_seq
    /\ artifacts' = S.artifacts
    /\ art_seq' = S.art_seq

\* A line is [kind, id, method, name, arguments]: kind is "blank", "garbage"
\* (not JSON) or "json"; id is the Option of the request's "id"; method is the
\* "method" string ("" when absent); name and arguments are params.name (""
\* when absent) and the Option of params.arguments.

LineBlank(l) ==
    /\ l.kind = "blank"
    /\ line' = l
    /\ emitted' = <<>>
    /\ result' = NoResult
    /\ UNCHANGED <<resolver_vars, store_vars, disk_vars>>

LineParseError(l) ==
    /\ l.kind = "garbage"
    /\ line' = l
    /\ emitted' = <<Response(JNull, PARSE_ERROR)>>
    /\ result' = NoResult
    /\ UNCHANGED <<resolver_vars, store_vars, disk_vars>>

LineInitialize(l) ==
    /\ l.kind = "json" /\ l.method = "initialize"
    /\ line' = l
    /\ emitted' = <<Response(request_id(l), 0)>>
    /\ result' = NoResult
    /\ UNCHANGED <<resolver_vars, store_vars, disk_vars>>

LineToolsList(l) ==
    /\ l.kind = "json" /\ l.method = "tools/list"
    /\ line' = l
    /\ emitted' = <<Response(request_id(l), 0)>>
    /\ result' = NoResult
    /\ UNCHANGED <<resolver_vars, store_vars, disk_vars>>

LineToolsCallNotInitialized(l) ==
    /\ l.kind = "json" /\ l.method = "tools/call"
    /\ ~initialized
    /\ line' = l
    /\ emitted' = <<Response(request_id(l), NOT_INITIALIZED)>>
    /\ result' = NoResult
    /\ UNCHANGED <<resolver_vars, store_vars, disk_vars>>

\* A dispatcher that looks for the store again at every call.
LineToolsCall_rechecking(l) ==
    /\ l.kind = "json" /\ l.method = "tools/call"
    /\ bb_dir /\ db_file
    /\ \E r \in {handle_request(TheContext, TheStore, l.name, l.arguments)} :
       /\ line' = l
       /\ result' = r.res
       /\ emitted' = <<Response(request_id(l),
                               IF r.res.ok THEN 0 ELSE error_code(r.res.kind))>>
       /\ Leaves(r.st)

LineToolsCall(l) ==
    /\ l.kind = "json" /\ l.method = "tools/call"
    /\ initialized
    /\ \E r \in {handle_request(TheContext, TheStore, l.name, l.arguments)} :
       /\ line' = l
       /\ result' = r.res
       /\ emitted' = <<Response(request_id(l),
                               IF r.res.ok THEN 0 ELSE error_code(r.res.kind))>>
       /\ Leaves(r.st)

LineUnknownMethod(l) ==
    /\ l.kind = "json" /\ l.method \notin {"initialize", "tools/list", "tools/call"}
    /\ line' = l
    /\ emitted' = <<Response(request_id(l), METHOD_NOT_FOUND)>>
    /\ result' = NoResult
    /\ UNCHANGED <<resolver_vars, store_vars, disk_vars>>

\* A line whose bytes are not UTF-8: next_line() returns Err, the pattern
\* Ok(Some(line)) does not match, nothing is written, and the loop is left
\* (the part of the step that ends the loop is in ReadNotUtf8).
LineNotUtf8(l) ==
    /\ l.kind = "bytes"
    /\ line' = l
    /\ emitted' = <<>>
    /\ result' = NoResult
    /\ UNCHANGED <<resolver_vars, store_vars, disk_vars>>

\* next_line() returned Ok(None) (end of input) or Err (a read error, or
\* bytes that are not UTF-8): the while-let ends and the server returns.
LoopEnd ==
    /\ ~stopped
    /\ stopped' = TRUE
    /\ UNCHANGED <<line, result, emitted, resolver_vars, store_vars>>


----------------------------------------------------------------------------
(* Inputs *)

IdA == <<"a">>
IdB == <<"b">>
IdEmpty == <<>>
IdLong == Rep(MAX_AGENT_ID_LEN + 1)
IdControl == <<"a", "\n">>
ValidIds == {IdA, IdB}
InvalidIds == {IdEmpty, IdLong, IdControl}

Task1 == <<"t">>
TaskLong == Rep(MAX_TASK_LEN + 1)
Blockers1 == <<"w">>
BlockersLong == Rep(MAX_BLOCKERS_LEN + 1)
Content1 == <<"c">>
ContentLong == Rep(MAX_MESSAGE_CONTENT_LEN + 1)
Tag1 == <<"k">>
TagBlank == <<"k", " ">>
TagLong == Rep(MAX_TAG_LEN + 1)
Desc1 == <<"e">>
DescLong == Rep(MAX_ARTIFACT_DESC_LEN + 1)
Version1 == <<"1">>
VersionLong == Rep(MAX_VERSION_LEN + 1)
PathF == <<"f">>
PathG == <<"g">>
PathUp == <<".", ".", "/", "s">>
PathAbs == <<"/", "f">>
PathLink == <<"l">>
PathMissing == <<"n">>
PathLong == Rep(MAX_ARTIFACT_PATH_LEN + 1)

\* A ref as a tool call carries it, under the field names RefInput reads.
RefIn1 == [where_ |-> JStr(<<"j">>), what |-> JStr(<<"i">>), ref_ |-> JNum(13)]
\* n refs
RefsIn(n) == [i \in 1..n |-> RefIn1]
\* n tags
Tags(n) == [i \in 1..n |-> Tag1]

Call(id, name, args) ==
    [kind |-> "json", id |-> id, method |-> "tools/call", name |-> name,
     arguments |-> args]
Meta(id, method) ==
    [kind |-> "json", id |-> id, method |-> method, name |-> "", arguments |-> None]
Blank == [kind |-> "blank", id |-> None, method |-> "", name |-> "", arguments |-> None]
\* A line that is not JSON; the id is what the text would have carried.
Garbage(id) == [kind |-> "garbage", id |-> id, method |-> "", name |-> "",
                arguments |-> None]

\* A line that is not text: its bytes are not valid UTF-8.
NotUtf8 == [kind |-> "bytes", id |-> None, method |-> "", name |-> "",
            arguments |-> None]

Id1 == Some(JNum(1))
Id2 == Some(JNum(2))

\* The lines that are not tool calls.
MetaLines ==
    {Blank, Garbage(Id1), Meta(Id1, "initialize"), Meta(Id1, "tools/list"),
     Meta(Id1, "ping"), Meta(None, "")}

IdentifyLines ==
    { Call(Id1, "identify", Some([agent_id |-> JStr(x)])) : x \in ValidIds \cup InvalidIds }
    \cup { Call(Id1, "identify", None),
           Call(Id1, "identify", Some([agent |-> JStr(IdA)])),
           Call(Id1, "identify", Some([agent_id |-> JNum(7)])) }

\* One well-formed and one malformed call of each tool that needs an identity.
SetStatusOk == Call(Id1, "set_status",
                    Some([current_task |-> JStr(Task1), status |-> JStr("coding")]))
PostMessageOk == Call(Id1, "post_message", Some([content |-> JStr(Content1)]))
RegisterArtifactOk == Call(Id1, "register_artifact",
                           Some([path |-> JStr(PathF), description |-> JStr(Desc1)]))
ActingLines ==
    {SetStatusOk, PostMessageOk, RegisterArtifactOk,
     Call(Id1, "set_status", None),
     Call(Id1, "set_status", Some([progress |-> JNum(300)])),
     Call(Id1, "post_message", Some([tags |-> JArr(<<Tag1>>)])),
     Call(Id1, "register_artifact", Some([path |-> JStr(PathF)]))}

ReadingLines ==
    {Call(Id1, "get_status", None),
     Call(Id1, "get_status", Some([agent_id |-> JStr(IdB)])),
     Call(Id1, "read_messages", None),
     Call(Id1, "read_messages", Some([since |-> JStr(<<"x">>)])),
     Call(Id1, "list_artifacts", None),
     Call(Id1, "find_refs",
          Some([where_ |-> JStr(<<"j">>), what |-> JStr(<<"i">>), ref_ |-> JStr(<<"1">>)])),
     Call(Id1, "summary", None),
     Call(Id1, "bogus", None)}

SessionLines == MetaLines \cup IdentifyLines \cup ActingLines \cup ReadingLines

\* The lines a client may send.
\* Calls of the three writing tools on behalf of a fixed identity: of each
\* tool one that is well-formed, and others that each fail one validation.
WritesLines ==
    {SetStatusOk,
     Call(Id1, "set_status", Some([current_task |-> JStr(TaskLong)])),
     Call(Id1, "set_status",
          Some([current_task |-> JStr(Task1), status |-> JStr("blocked"),
                progress |-> JNum(150), blockers |-> JStr(BlockersLong)])),
     Call(Id1, "set_status",
          Some([status |-> JStr("blocked"), blockers |-> JStr(Blockers1)])),
     Call(Id1, "set_status",
          Some([status |-> JStr("testing"), blockers |-> JStr(Blockers1)])),
     PostMessageOk,
     Call(Id1, "post_message", Some([content |-> JStr(<<>>)])),
     Call(Id1, "post_message", Some([content |-> JStr(ContentLong)])),
     Call(Id1, "post_message",
          Some([content |-> JStr(Content1), tags |-> JArr(<<Tag1, TagBlank>>)])),
     Call(Id1, "post_message",
          Some([content |-> JStr(Content1),
                tags |-> JArr(Tags(MAX_TAGS_PER_MESSAGE + 1))])),
     Call(Id1, "post_message",
          Some([content |-> JStr(Content1),
                refs |-> JArr(RefsIn(MAX_REFS_PER_ENTITY + 1))])),
     Call(Id1, "post_message",
          Some([content |-> JStr(Content1), reply_to |-> JNum(9)])),
     RegisterArtifactOk,
     Call(Id1, "register_artifact",
          Some([path |-> JStr(PathF), description |-> JStr(Desc1),
                version |-> JStr(VersionLong)])),
     Call(Id1, "register_artifact",
          Some([path |-> JStr(PathF), description |-> JStr(DescLong)]))}
    \cup { Call(Id1, "register_artifact",
                 Some([path |-> JStr(x), description |-> JStr(Desc1)])) :
               x \in {PathUp, PathAbs, PathLink} }

\* Lines of every kind the dispatcher tells apart, with the ids 1 and 2 and
\* without an id.
DispatchLines ==
    {Blank, Garbage(Id2), Garbage(None),
     Meta(Id1, "initialize"), Meta(Id2, "tools/list"), Meta(None, "tools/list"),
     Meta(Id1, "ping"), Meta(None, ""),
     SetStatusOk,
     Call(Id2, "get_status", None),
     Call(None, "summary", None),
     Call(Id2, "post_message", None)}

\* Tool calls that reach the store, one that fails before it does, and
\* identify, which never does.
FsLines ==
    {SetStatusOk, PostMessageOk,
     Call(Id1, "set_status", Some([current_task |-> JStr(TaskLong)])),
     Call(Id1, "post_message", Some([content |-> JStr(<<>>)])),
     Call(Id1, "get_status", None),
     Call(Id1, "summary", None),
     Call(Id1, "identify", Some([agent_id |-> JStr(IdA)]))}

\* The same calls and the two meta-methods that need no store.
StartLines == FsLines \cup {Meta(Id1, "initialize"), Meta(Id2, "tools/list")}

\* Lines that are requests, a line that is text but not JSON, and a line that
\* is not text.
BytesLines ==
    {Blank, Garbage(Id2), NotUtf8,
     Meta(Id2, "tools/list"),
     SetStatusOk,
     Call(Id2, "get_status", None)}

\* Calls of store tools, and lines answered without the store.
WorkerLines ==
    {Blank, Meta(Id2, "tools/list"), SetStatusOk, PostMessageOk,
     Call(Id2, "get_status", None)}

\* Messages and replies: to the first message, to the second, to one that
\* is not stored, and a reply whose content is empty.
RepliesLines ==
    {PostMessageOk,
     Call(Id1, "post_message", Some([content |-> JStr(Content1), reply_to |-> JNum(1)])),
     Call(Id1, "post_message", Some([content |-> JStr(Content1), reply_to |-> JNum(2)])),
     Call(Id1, "post_message", Some([content |-> JStr(Content1), reply_to |-> JNum(9)])),
     Call(Id1, "post_message", Some([content |-> JStr(<<>>), reply_to |-> JNum(1)]))}

Desc2 == <<"e", "2">>

\* Registrations of two paths, with and without version and refs, and of
\* paths that are refused; a listing.
ArtifactsLines ==
    { Call(Id1, "register_artifact",
           Some([path |-> JStr(x), description |-> JStr(Desc1)])) :
         x \in {PathF, PathG, PathUp, PathAbs, PathLink, PathMissing} }
    \cup
    { Call(Id1, "register_artifact",
           Some([path |-> JStr(x), description |-> JStr(Desc2),
                 version |-> JStr(Version1), refs |-> JArr(RefsIn(1))])) :
         x \in {PathF, PathG} }
    \cup
    { Call(Id1, "register_artifact",
           Some([path |-> JStr(PathF), description |-> JStr(DescLong)])),
      Call(Id1, "list_artifacts", None) }

\* A ref under the names the tools/list catalog and the protocol have.
RefNamed(v) == [where |-> JStr(<<"j">>), what |-> JStr(<<"i">>), ref |-> v]

\* Calls that carry a reference: find_refs with the fields where, what, ref
\* and with where_, what, ref_; post_message and register_artifact with a
\* ref as {where, what, ref} and as {where_, what, ref_}.
RefsLines ==
    { Call(Id1, "find_refs", Some(RefNamed(JStr(<<"1", "3">>)))),
      Call(Id1, "find_refs", Some(RefNamed(JNum(13)))),
      Call(Id1, "find_refs",
           Some([where_ |-> JStr(<<"j">>), what |-> JStr(<<"i">>),
                 ref_ |-> JStr(<<"1", "3">>)])),
      Call(Id1, "post_message",
           Some([content |-> JStr(Content1), refs |-> JArr(<<RefNamed(JNum(13))>>)])),
      Call(Id1, "post_message",
           Some([content |-> JStr(Content1), refs |-> JArr(RefsIn(1))])),
      Call(Id1, "register_artifact",
           Some([path |-> JStr(PathF), description |-> JStr(Desc1),
                 refs |-> JArr(<<RefNamed(JStr(<<"x", "1">>))>>)])),
      Call(Id1, "register_artifact",
           Some([path |-> JStr(PathF), description |-> JStr(Desc1),
                 refs |-> JArr(RefsIn(1))])) }

Inputs(c) ==
    CASE c.sends = "session" -> SessionLines
      [] c.sends = "bytes" -> BytesLines
      [] c.sends = "replies" -> RepliesLines
      [] c.sends = "worker" -> WorkerLines
      [] c.sends = "fs" -> FsLines
      [] c.sends = "start" -> StartLines
      [] c.sends = "dispatch" -> DispatchLines
      [] c.sends = "writes" -> WritesLines
      [] c.sends = "artifacts" -> ArtifactsLines
      [] c.sends = "refs" -> RefsLines

----------------------------------------------------------------------------
(* Bounds *)

MaxMessages == 2
MaxPosts == 1
MaxTasks == 3
MaxNow == 1
MaxLines == 3

----------------------------------------------------------------------------
(* The session of one dispatcher process *)

NoTable == <<>>

\* The tables right after bb init.
InitEmptyStore ==
    /\ agents = NoTable
    /\ messages = {}
    /\ msg_seq = 0
    /\ artifacts = NoTable
    /\ art_seq = 0

\* The parts of the state a specification does not use.
InitNoTasks == lock = 0 /\ tpc = <<>> /\ targ = <<>> /\ tres = <<>>
InitNoProcs == ppc = <<>> /\ plocal = <<>> /\ pin = <<>>
InitNoHistory == lines = <<>> /\ out = <<>>

\* run_mcp_server up to its loop: the project directory is initialized, has
\* only the .bb directory, or has neither; --agent and BB_AGENT_ID are given
\* or not (BB_AGENT_ID may be set to the empty string).
InitSession ==
    /\ bb_dir \in BOOLEAN
    /\ db_file \in {TRUE, FALSE} \cap {bb_dir, FALSE}
    /\ db_tables = db_file
    /\ initialized = (bb_dir /\ db_file)
    /\ fixed_agent \in {None, Some(IdA)}
    /\ env_agent \in {None, Some(IdA), Some(IdB), Some(IdEmpty)}
    /\ resolved = None
    /\ now = 0
    /\ line = Blank
    /\ result = NoResult
    /\ emitted = <<>>
    /\ stopped = FALSE

Init ==
    /\ InitSession /\ InitEmptyStore /\ InitNoTasks /\ InitNoProcs /\ InitNoHistory
    /\ client = [sends |-> "session", logged |-> FALSE, room |-> MaxMessages]

\* The bound on the messages table.
Room(l) == (l.kind = "json" /\ l.method = "tools/call" /\ l.name = "post_message")
               => Cardinality(messages) < client.room

\* The log of a logged session, and the bound on its length.
Logged(l) ==
    IF client.logged
    THEN /\ Len(lines) < MaxLines
         /\ lines' = Append(lines, l)
         /\ out' = out \o emitted'
    ELSE UNCHANGED hist_vars

\* What every iteration of the while loop of run_mcp_server shares: the loop
\* is running, and it goes on.
Iteration(l) ==
    /\ ~stopped
    /\ stopped' = FALSE
    /\ Room(l)
    /\ Logged(l)
    /\ UNCHANGED <<bb_dir, initialized, now, client, task_vars, proc_vars>>

ReadBlank == \E l \in Inputs(client) : LineBlank(l) /\ Iteration(l)
ReadParseError == \E l \in Inputs(client) : LineParseError(l) /\ Iteration(l)
ReadInitialize == \E l \in Inputs(client) : LineInitialize(l) /\ Iteration(l)
ReadToolsList == \E l \in Inputs(client) : LineToolsList(l) /\ Iteration(l)
ReadToolsCallNotInitialized ==
    \E l \in Inputs(client) : LineToolsCallNotInitialized(l) /\ Iteration(l)
ReadToolsCall == \E l \in Inputs(client) : LineToolsCall(l) /\ Iteration(l)
ReadUnknownMethod == \E l \in Inputs(client) : LineUnknownMethod(l) /\ Iteration(l)

End == LoopEnd /\ UNCHANGED <<fs_vars, now, client, hist_vars, task_vars, proc_vars>>

Tick ==
    /\ now < MaxNow
    /\ now' = now + 1
    /\ UNCHANGED <<fs_vars, resolver_vars, store_vars, loop_vars, client, hist_vars,
                   task_vars, proc_vars>>

\* The read loop of one session, from the first line to the end of input.
Session ==
    \/ ReadBlank
    \/ ReadParseError
    \/ ReadInitialize
    \/ ReadToolsList
    \/ ReadToolsCallNotInitialized
    \/ ReadToolsCall
    \/ ReadUnknownMethod
    \/ End

Next == Session

Spec == Init /\ [][Next]_vars

\* A session whose lines and responses are logged, in a project directory
\* that is initialized or not, started with --agent a.
InitDispatch ==
    /\ bb_dir \in BOOLEAN
    /\ db_file = bb_dir
    /\ db_tables = db_file
    /\ initialized = (bb_dir /\ db_file)
    /\ fixed_agent = Some(IdA)
    /\ env_agent = None
    /\ resolved = None
    /\ now = 0
    /\ line = Blank /\ result = NoResult /\ emitted = <<>> /\ stopped = FALSE
    /\ InitEmptyStore /\ InitNoTasks /\ InitNoProcs /\ InitNoHistory
    /\ client = [sends |-> "dispatch", logged |-> TRUE, room |-> MaxMessages]

SpecDispatch == InitDispatch /\ [][Session]_vars

\* The iteration of the while-let that does not happen: the line read is not
\* UTF-8, and the server returns without a response.
ReadNotUtf8 ==
    \E l \in Inputs(client) :
        /\ LineNotUtf8(l)
        /\ ~stopped
        /\ stopped' = TRUE
        /\ Logged(l)
        /\ UNCHANGED <<bb_dir, initialized, now, client, task_vars, proc_vars>>

\* A logged session whose input may hold bytes that are not text.
InitBytes ==
    /\ bb_dir \in BOOLEAN
    /\ db_file = bb_dir
    /\ db_tables = db_file
    /\ initialized = (bb_dir /\ db_file)
    /\ fixed_agent = Some(IdA)
    /\ env_agent = None
    /\ resolved = None
    /\ now = 0
    /\ line = Blank /\ result = NoResult /\ emitted = <<>> /\ stopped = FALSE
    /\ InitEmptyStore /\ InitNoTasks /\ InitNoProcs /\ InitNoHistory
    /\ client = [sends |-> "bytes", logged |-> TRUE, room |-> MaxMessages]

AnyBytes ==
    \/ ReadBlank
    \/ ReadParseError
    \/ ReadToolsList
    \/ ReadToolsCallNotInitialized
    \/ ReadToolsCall
    \/ ReadNotUtf8
    \/ End

SpecBytes == InitBytes /\ [][AnyBytes]_vars

----------------------------------------------------------------------------
(* The project directory changing under a running server *)

EmptyTables ==
    /\ agents' = NoTable
    /\ messages' = {}
    /\ msg_seq' = 0
    /\ artifacts' = NoTable
    /\ art_seq' = 0

FsLeaves ==
    UNCHANGED <<initialized, resolver_vars, now, loop_vars, client, hist_vars,
                task_vars, proc_vars>>

\* Somebody removes the .bb directory, with the database in it.
RemoveDir ==
    /\ bb_dir
    /\ bb_dir' = FALSE /\ db_file' = FALSE /\ db_tables' = FALSE
    /\ EmptyTables
    /\ FsLeaves

\* Somebody removes .bb/blackboard.db.
RemoveDbFile ==
    /\ db_file
    /\ db_file' = FALSE /\ db_tables' = FALSE
    /\ UNCHANGED bb_dir
    /\ EmptyTables
    /\ FsLeaves

\* bb init, where it is not a no-op: the directory or the file is missing.
CliInit ==
    /\ ~(bb_dir /\ db_file)
    /\ bb_dir' = TRUE /\ db_file' = TRUE /\ db_tables' = TRUE
    /\ UNCHANGED store_vars
    /\ FsLeaves

InitFs ==
    /\ bb_dir \in BOOLEAN
    /\ db_file \in {TRUE, FALSE} \cap {bb_dir, FALSE}
    /\ db_tables = db_file
    /\ initialized = (bb_dir /\ db_file)
    /\ fixed_agent \in {None, Some(IdA)}
    /\ env_agent = None
    /\ resolved = None
    /\ now = 0
    /\ line = Blank /\ result = NoResult /\ emitted = <<>> /\ stopped = FALSE
    /\ InitEmptyStore /\ InitNoTasks /\ InitNoProcs /\ InitNoHistory
    /\ client = [sends |-> "fs", logged |-> TRUE, room |-> MaxPosts]

ChangingFs ==
    \/ ReadToolsCallNotInitialized
    \/ ReadToolsCall
    \/ RemoveDir
    \/ RemoveDbFile
    \/ CliInit

SpecFs == InitFs /\ [][ChangingFs]_vars

\* A server started in a project directory that is initialized or not, and
\* bb init run by another process; ppc names the process that acted last.
InitStart ==
    /\ bb_dir \in BOOLEAN
    /\ db_file \in {TRUE, FALSE} \cap {bb_dir, FALSE}
    /\ db_tables = db_file
    /\ initialized = (bb_dir /\ db_file)
    /\ fixed_agent \in {None, Some(IdA)}
    /\ env_agent = None
    /\ resolved = None
    /\ now = 0
    /\ line = Blank /\ result = NoResult /\ emitted = <<>> /\ stopped = FALSE
    /\ InitEmptyStore /\ InitNoTasks /\ InitNoProcs /\ InitNoHistory
    /\ client = [sends |-> "start", logged |-> FALSE, room |-> MaxMessages]

\* One iteration of the while loop of run_mcp_server.
ServerIteration(l) ==
    /\ ~stopped
    /\ stopped' = FALSE
    /\ Room(l)
    /\ ppc' = "mcp"
    /\ UNCHANGED <<bb_dir, initialized, now, client, hist_vars, task_vars, plocal, pin>>

ServerInitialize == \E l \in Inputs(client) : LineInitialize(l) /\ ServerIteration(l)
ServerToolsList == \E l \in Inputs(client) : LineToolsList(l) /\ ServerIteration(l)
ServerNotInitialized ==
    \E l \in Inputs(client) : LineToolsCallNotInitialized(l) /\ ServerIteration(l)
ServerToolsCall == \E l \in Inputs(client) : LineToolsCall(l) /\ ServerIteration(l)

\* bb init run in the project directory while the server is up.
BbInit ==
    /\ ~(bb_dir /\ db_file)
    /\ bb_dir' = TRUE /\ db_file' = TRUE /\ db_tables' = TRUE
    /\ ppc' = "bb init"
    /\ UNCHANGED <<initialized, resolver_vars, store_vars, now, loop_vars, client,
                   hist_vars, task_vars, plocal, pin>>

Starting ==
    \/ ServerInitialize
    \/ ServerToolsList
    \/ ServerNotInitialized
    \/ ServerToolsCall
    \/ BbInit

SpecStart == InitStart /\ [][Starting]_vars

----------------------------------------------------------------------------
(* Tool calls in flight on the resolver the server shares behind its Mutex *)

Tasks == 1..MaxTasks

\* What a task does with the resolver: identify (tools.rs identify), or
\* require_identity (the first statements of set_status, post_message and
\* register_artifact).
TaskOps ==
    { [op |-> "identify", id |-> x] : x \in {IdA, IdB, IdEmpty} }
    \cup {[op |-> "resolve", id |-> <<>>]}

Holding == {"locked", "checked"}

\* A lock that is handed out although it is held.
lock_never_held(l) == TRUE

\* identity.lock().await returns when no task holds the guard.
lock_is_free(l) == l = 0

InitLock ==
    /\ bb_dir = TRUE /\ db_file = TRUE /\ db_tables = TRUE /\ initialized = TRUE
    /\ fixed_agent = None /\ env_agent = None /\ resolved = None
    /\ now = 0
    /\ line = Blank /\ result = NoResult /\ emitted = <<>> /\ stopped = FALSE
    /\ InitEmptyStore /\ InitNoProcs /\ InitNoHistory
    /\ client = [sends |-> "session", logged |-> FALSE, room |-> MaxMessages]
    /\ lock = 0
    /\ targ \in [Tasks -> TaskOps]
    /\ tpc = [t \in Tasks |-> "start"]
    /\ tres = [t \in Tasks |-> [seen |-> None, res |-> NoResult]]

LockLeaves ==
    UNCHANGED <<fs_vars, fixed_agent, env_agent, store_vars, now, loop_vars, client,
                hist_vars, proc_vars, targ>>

\* let resolver = identity.lock().await
TaskAcquire(t) ==
    /\ tpc[t] = "start"
    /\ lock_is_free(lock)
    /\ lock' = t
    /\ tpc' = [tpc EXCEPT ![t] = "locked"]
    /\ UNCHANGED <<resolved, tres>>
    /\ LockLeaves

\* IdentityResolver::identify, up to its reading of self.resolved
TaskIdentifyCheck(t) ==
    /\ tpc[t] = "locked" /\ targ[t].op = "identify"
    /\ tres' = [tres EXCEPT ![t].seen = resolved]
    /\ tpc' = [tpc EXCEPT ![t] = "checked"]
    /\ UNCHANGED <<resolved, lock>>
    /\ LockLeaves

\* IdentityResolver::identify, from there to its return; the guard is dropped
\* when tools.rs identify returns.
TaskIdentifyApply(t) ==
    /\ tpc[t] = "checked"
    /\ \E r \in {identify(fixed_agent, env_agent, tres[t].seen, targ[t].id)} :
          /\ resolved' = IF r.resolved # tres[t].seen THEN r.resolved ELSE resolved
          /\ tres' = [tres EXCEPT ![t].res = r.res]
    /\ lock' = 0
    /\ tpc' = [tpc EXCEPT ![t] = "done"]
    /\ LockLeaves

\* resolver.require_identity()?.to_string(); drop(resolver)
TaskResolve(t) ==
    /\ tpc[t] = "locked" /\ targ[t].op = "resolve"
    /\ tres' = [tres EXCEPT ![t].res = require_identity(fixed_agent, env_agent, resolved)]
    /\ lock' = 0
    /\ tpc' = [tpc EXCEPT ![t] = "done"]
    /\ UNCHANGED resolved
    /\ LockLeaves

Acquire == \E t \in Tasks : TaskAcquire(t)
IdentifyCheck == \E t \in Tasks : TaskIdentifyCheck(t)
IdentifyApply == \E t \in Tasks : TaskIdentifyApply(t)
Resolve == \E t \in Tasks : TaskResolve(t)

InFlight == Acquire \/ IdentifyCheck \/ IdentifyApply \/ Resolve

SpecLock == InitLock /\ [][InFlight]_vars

----------------------------------------------------------------------------
(* A status update of the CLI and a touch of the server, on the same agent,
   each on its own connection and each statement on its own *)

RaceAgent == IdA

\* The rows the agent may have when the two operations start.
RaceTables ==
    {NoTable,
     [x \in {RaceAgent} |->
         [current_task |-> <<>>, progress |-> 0, status |-> "idle",
          blockers |-> None, last_seen |-> 0, updated_at |-> 0]],
     [x \in {RaceAgent} |->
         [current_task |-> Task1, progress |-> 10, status |-> "blocked",
          blockers |-> Some(Blockers1), last_seen |-> 0, updated_at |-> 0]]}

\* What bb status set is given.
RaceUpdates ==
    [task : {None, Some(Task1), Some(TaskLong)},
     progress : {None, Some(50)},
     status : {None, Some("Coding"), Some("Blocked")},
     blockers : {None, Some(Blockers1)}]

InitRace ==
    /\ bb_dir = TRUE /\ db_file = TRUE /\ db_tables = TRUE /\ initialized = TRUE
    /\ fixed_agent = Some(RaceAgent) /\ env_agent = None /\ resolved = None
    /\ now = 1
    /\ line = Blank /\ result = NoResult /\ emitted = <<>> /\ stopped = FALSE
    /\ InitNoTasks /\ InitNoHistory
    /\ client = [sends |-> "session", logged |-> FALSE, room |-> MaxMessages]
    /\ messages = {} /\ msg_seq = 0 /\ artifacts = NoTable /\ art_seq = 0
    /\ agents \in RaceTables
    /\ \E u \in RaceUpdates : pin = [update |-> u, table |-> agents]
    /\ ppc = [update |-> "select", touch |-> "select"]
    /\ plocal = [update |-> Agent_new(RaceAgent, 0), touch |-> Agent_new(RaceAgent, 0),
                 res |-> NoResult]

RaceLeaves ==
    UNCHANGED <<fs_vars, resolver_vars, messages, msg_seq, artifacts, art_seq, now,
                loop_vars, client, hist_vars, task_vars, pin>>

\* update_agent_status: validate_agent_id, get_agent, unwrap_or_else
UpdateSelect ==
    /\ ppc.update = "select"
    /\ validate_agent_id(RaceAgent).ok
    /\ plocal' = [plocal EXCEPT !.update =
                     OptOr(get_agent_q(agents, RaceAgent), Some(Agent_new(RaceAgent, now)))[1]]
    /\ ppc' = [ppc EXCEPT !.update = "upsert"]
    /\ UNCHANGED agents
    /\ RaceLeaves

\* update_agent_status: the changes, and upsert_agent unless a validation fails
UpdateUpsert ==
    /\ ppc.update = "upsert"
    /\ \E c \in {status_changes(plocal.update, pin.update.task, pin.update.progress,
                                 pin.update.status, pin.update.blockers, now)} :
          /\ plocal' = [plocal EXCEPT !.res = c]
          /\ agents' = IF c.ok THEN upsert_agent(agents, c.val) ELSE agents
    /\ ppc' = [ppc EXCEPT !.update = "done"]
    /\ RaceLeaves

\* touch_agent: validate_agent_id, get_agent, unwrap_or_else
TouchSelect ==
    /\ ppc.touch = "select"
    /\ validate_agent_id(RaceAgent).ok
    /\ plocal' = [plocal EXCEPT !.touch =
                     OptOr(get_agent_q(agents, RaceAgent), Some(Agent_new(RaceAgent, now)))[1]]
    /\ ppc' = [ppc EXCEPT !.touch = "upsert"]
    /\ UNCHANGED agents
    /\ RaceLeaves

\* touch_agent: agent.last_seen = Utc::now(); upsert_agent
TouchUpsert ==
    /\ ppc.touch = "upsert"
    /\ agents' = upsert_agent(agents, [plocal.touch EXCEPT !.last_seen = now])
    /\ ppc' = [ppc EXCEPT !.touch = "done"]
    /\ UNCHANGED plocal
    /\ RaceLeaves

Race == UpdateSelect \/ UpdateUpsert \/ TouchSelect \/ TouchUpsert

SpecRace == InitRace /\ [][Race]_vars

\* A session on an initialized store that calls the writing tools while the
\* clock goes on.
InitWrites ==
    /\ bb_dir = TRUE /\ db_file = TRUE /\ db_tables = TRUE /\ initialized = TRUE
    /\ fixed_agent \in {None, Some(IdA)}
    /\ env_agent = None
    /\ resolved = None
    /\ now = 0
    /\ line = Blank /\ result = NoResult /\ emitted = <<>> /\ stopped = FALSE
    /\ InitEmptyStore /\ InitNoTasks /\ InitNoProcs /\ InitNoHistory
    /\ client = [sends |-> "writes", logged |-> FALSE, room |-> MaxPosts]

Writes == ReadToolsCall \/ Tick \/ End

SpecWrites == InitWrites /\ [][Writes]_vars

\* A session that posts messages and replies to them.
InitReplies ==
    /\ bb_dir = TRUE /\ db_file = TRUE /\ db_tables = TRUE /\ initialized = TRUE
    /\ fixed_agent \in {None, Some(IdA)}
    /\ env_agent \in {None, Some(IdB)}
    /\ resolved = None
    /\ now = 0
    /\ line = Blank /\ result = NoResult /\ emitted = <<>> /\ stopped = FALSE
    /\ InitEmptyStore /\ InitNoTasks /\ InitNoProcs /\ InitNoHistory
    /\ client = [sends |-> "replies", logged |-> FALSE, room |-> MaxMessages]

SpecReplies == InitReplies /\ [][Writes]_vars

\* A session whose calls carry references.
InitRefs ==
    /\ bb_dir = TRUE /\ db_file = TRUE /\ db_tables = TRUE /\ initialized = TRUE
    /\ fixed_agent \in {None, Some(IdA)}
    /\ env_agent \in {None, Some(IdB)}
    /\ resolved = None
    /\ now = 0
    /\ line = Blank /\ result = NoResult /\ emitted = <<>> /\ stopped = FALSE
    /\ InitEmptyStore /\ InitNoTasks /\ InitNoProcs /\ InitNoHistory
    /\ client = [sends |-> "refs", logged |-> FALSE, room |-> MaxMessages]

SpecRefs == InitRefs /\ [][Writes]_vars

\* The artifacts another session left: none, or a file registered by b with
\* a version and a ref.
EarlierArtifacts ==
    { [artifacts |-> NoTable, art_seq |-> 0],
      [artifacts |-> register_artifact(NoTable, 0, PathF, IdB, Desc2, Some(Version1),
                                       to_refs(RefsIn(1)), 0).artifacts,
       art_seq |-> 1] }

\* A session that registers artifacts while the clock goes on.
InitArtifacts ==
    /\ bb_dir = TRUE /\ db_file = TRUE /\ db_tables = TRUE /\ initialized = TRUE
    /\ fixed_agent \in {None, Some(IdA)}
    /\ env_agent = None
    /\ resolved = None
    /\ now = 0
    /\ line = Blank /\ result = NoResult /\ emitted = <<>> /\ stopped = FALSE
    /\ agents = NoTable /\ messages = {} /\ msg_seq = 0
    /\ \E e \in EarlierArtifacts : artifacts = e.artifacts /\ art_seq = e.art_seq
    /\ InitNoTasks /\ InitNoProcs /\ InitNoHistory
    /\ client = [sends |-> "artifacts", logged |-> FALSE, room |-> MaxPosts]

SpecArtifacts == InitArtifacts /\ [][Writes]_vars

----------------------------------------------------------------------------
(* The read loop and the blocking worker of a store-touching call *)

\* The tools whose body runs inside tokio::task::spawn_blocking.
StoreTools == ToolNames \ {"identify"}

InitWorker ==
    /\ bb_dir = TRUE /\ db_file = TRUE /\ db_tables = TRUE /\ initialized = TRUE
    /\ fixed_agent = Some(IdA) /\ env_agent = None /\ resolved = None
    /\ now = 0
    /\ line = Blank /\ result = NoResult /\ emitted = <<>> /\ stopped = FALSE
    /\ InitEmptyStore /\ InitNoTasks /\ InitNoHistory
    /\ client = [sends |-> "worker", logged |-> TRUE, room |-> MaxPosts]
    /\ ppc = [loop |-> "read", worker |-> "idle"]
    /\ plocal = NoResult
    /\ pin = Blank

\* The loop is at lines.next_line().await and the line needs no store.
ServeBlank == ppc.loop = "read" /\ ReadBlank
ServeToolsList == ppc.loop = "read" /\ ReadToolsList

\* The loop read a call of a store tool: handle_request runs up to
\* spawn_blocking, the closure is handed to a worker thread, and the loop
\* task waits on the join handle (server.handle_request(..).await).
Spawn ==
    \E l \in Inputs(client) :
        /\ ppc.loop = "read"
        /\ ~stopped
        /\ l.kind = "json" /\ l.method = "tools/call" /\ l.name \in StoreTools
        /\ initialized
        /\ Room(l)
        /\ Len(lines) < MaxLines
        /\ line' = l
        /\ lines' = Append(lines, l)
        /\ pin' = l
        /\ plocal' = NoResult
        /\ ppc' = [loop |-> "await", worker |-> "running"]
        /\ UNCHANGED <<fs_vars, resolver_vars, store_vars, now, result, emitted,
                       stopped, client, out, task_vars>>

\* The closure on the worker thread: with_connection and the operation.
StoreOperation ==
    /\ ppc.worker = "running"
    /\ \E r \in {handle_request(TheContext, TheStore, pin.name, pin.arguments)} :
          /\ plocal' = r.res
          /\ Leaves(r.st)
    /\ ppc' = [ppc EXCEPT !.worker = "done"]
    /\ UNCHANGED <<bb_dir, initialized, now, loop_vars, client, hist_vars,
                   task_vars, pin>>

\* The join handle is ready: the loop task resumes, builds the response,
\* writes and flushes it, and goes back to next_line().
Respond ==
    /\ ppc.loop = "await" /\ ppc.worker = "done"
    /\ result' = plocal
    /\ emitted' = <<Response(request_id(line),
                            IF plocal.ok THEN 0 ELSE error_code(plocal.kind))>>
    /\ out' = out \o emitted'
    /\ ppc' = [loop |-> "read", worker |-> "idle"]
    /\ UNCHANGED <<fs_vars, resolver_vars, store_vars, now, line, stopped, client,
                   lines, task_vars, plocal, pin>>

\* End of input, seen where the loop reads.
ServeEnd == ppc.loop = "read" /\ End

\* The loop reads a line.
ServeLine == ServeBlank \/ ServeToolsList \/ Spawn

Serving == ServeLine \/ StoreOperation \/ Respond \/ ServeEnd \/ Tick

SpecWorker == InitWorker /\ [][Serving]_vars

----------------------------------------------------------------------------
(* Agents over time: a session and the bb command line on one store *)

\* The instants the clock passes through: 30 min, 30 min 1 s and 40 min after
\* the start.
Instants == {1800, 1801, 2400}

\* Rows another session wrote at the start.
EarlierStatuses == {"Coding", "Blocked", "Offline"}
EarlierTables ==
    {NoTable} \cup
    { update_agent_status(NoTable, IdB, Some(Task1), None, Some(s),
                          IF s = "Blocked" THEN Some(Blockers1) ELSE None, 0).agents :
        s \in EarlierStatuses }

\* What the session sends while other processes use the store.
AgentsLines ==
    {SetStatusOk,
     Call(Id1, "get_status", None),
     Call(Id1, "get_status", Some([agent_id |-> JStr(IdB)])),
     Call(Id1, "summary", None)}

\* Calls of every tool that works on the store.
FrameLines ==
    {SetStatusOk,
     PostMessageOk,
     RegisterArtifactOk,
     Call(Id1, "get_status", None),
     Call(Id1, "get_status", Some([agent_id |-> JStr(IdB)])),
     Call(Id1, "get_status", Some([agent_id |-> JStr(IdA)])),
     Call(Id1, "read_messages", None),
     Call(Id1, "list_artifacts", None),
     Call(Id1, "find_refs",
          Some([where_ |-> JStr(<<"j">>), what |-> JStr(<<"i">>), ref_ |-> JStr(<<"1">>)])),
     Call(Id1, "summary", None)}

\* Calls of the tools that write, list and look up, for a session whose store
\* is cleared from the command line.
MessagesLines ==
    {SetStatusOk,
     PostMessageOk,
     RegisterArtifactOk,
     Call(Id1, "get_status", None),
     Call(Id1, "read_messages", None),
     Call(Id1, "list_artifacts", None),
     Call(Id1, "find_refs",
          Some([where_ |-> JStr(<<"j">>), what |-> JStr(<<"i">>), ref_ |-> JStr(<<"1">>)])),
     Call(Id1, "summary", None)}

\* Posts of a message and of replies to the first three ids, a reply that
\* fails its validation, and a listing.
ThreadsLines ==
    {PostMessageOk,
     Call(Id1, "post_message", Some([content |-> JStr(<<>>), reply_to |-> JNum(1)])),
     Call(Id1, "read_messages", None)} \cup
    { Call(Id1, "post_message",
           Some([content |-> JStr(Content1), reply_to |-> JNum(n)])) : n \in 1..3 }

AgentsInputs(c) ==
    CASE c.sends = "agents" -> AgentsLines
      [] c.sends = "messages" -> MessagesLines
      [] c.sends = "threads" -> ThreadsLines
      [] OTHER -> FrameLines

InitAgents ==
    /\ bb_dir = TRUE /\ db_file = TRUE /\ db_tables = TRUE /\ initialized = TRUE
    /\ fixed_agent = Some(IdA)
    /\ env_agent = None
    /\ resolved = None
    /\ now = 0
    /\ line = Blank /\ result = NoResult /\ emitted = <<>> /\ stopped = FALSE
    /\ agents \in EarlierTables
    /\ messages = {} /\ msg_seq = 0 /\ artifacts = NoTable /\ art_seq = 0
    /\ InitNoTasks /\ InitNoHistory
    /\ client = [sends |-> "agents", logged |-> FALSE, room |-> MaxPosts]
    /\ ppc = "start"
    /\ plocal = NoResult
    /\ pin = Blank

\* ppc is the process that took the last step other than the clock's.
Ran(p) == ppc' = p /\ now' = now

\* The server handles a tools/call.
McpCall ==
    \E l \in AgentsInputs(client) :
        /\ LineToolsCall(l)
        /\ ~stopped /\ stopped' = FALSE
        /\ Room(l)
        /\ ppc' = "mcp"
        /\ UNCHANGED <<bb_dir, initialized, now, client, hist_vars, task_vars,
                       plocal, pin>>

CliLeaves ==
    UNCHANGED <<fs_vars, resolver_vars, messages, msg_seq, artifacts, art_seq, now,
                loop_vars, client, hist_vars, task_vars, pin>>

\* bb status: the list it prints is kept in plocal.
CliStatus ==
    \E all \in {get_all_agents_with_liveness(agents, now)} :
        /\ agents' = all.agents
        /\ plocal' = all.res
        /\ ppc' = "bb status"
        /\ CliLeaves

\* A deletion that empties the table.
delete_all_agents(ags) == NoTable

\* DELETE FROM agents WHERE status = 'offline'
delete_offline_agents(ags) ==
    [x \in {y \in DOMAIN ags : ags[y].status # "offline"} |-> ags[x]]

\* bb clear --reset-offline, confirmed: the count (a list-all with its sweep),
\* and the deletion when the count is not zero.
CliClearOffline ==
    \E all \in {get_all_agents_with_liveness(agents, now)} :
        /\ agents' = IF \E a \in all.res.val : a.status = "Offline"
                     THEN delete_offline_agents(all.agents)
                     ELSE all.agents
        /\ plocal' = all.res
        /\ ppc' = "bb clear"
        /\ CliLeaves

\* core/operations/agent.rs: clear_agent_status
clear_agent_status(ags, agent_id, t) ==
    LET v == validate_agent_id(agent_id) IN
    IF ~v.ok THEN [res |-> v, agents |-> ags]
    ELSE LET found == get_agent_q(ags, agent_id)
             agent == IF IsSome(found) THEN Unwrap(found) ELSE Agent_new(agent_id, t)
             cleared == [agent EXCEPT !.current_task = <<>>, !.progress = 0,
                                      !.status = "Idle", !.blockers = None,
                                      !.last_seen = t, !.updated_at = t]
         IN  [res |-> Ok(cleared), agents |-> upsert_agent(ags, cleared)]

\* bb status clear --agent b
CliStatusClear ==
    \E c \in {clear_agent_status(agents, IdB, now)} :
        /\ agents' = c.agents
        /\ plocal' = c.res
        /\ ppc' = "bb status clear"
        /\ CliLeaves

\* Time passes.
Elapse ==
    /\ \E t \in Instants : t > now /\ now' = t
    /\ UNCHANGED <<fs_vars, resolver_vars, store_vars, loop_vars, client, hist_vars,
                   task_vars, proc_vars>>

\* A session that finds agents of any age in the store: another session wrote
\* their rows, and the time since then is 0, 30 min, 30 min 1 s or 40 min.
InitFrame ==
    /\ bb_dir = TRUE /\ db_file = TRUE /\ db_tables = TRUE /\ initialized = TRUE
    /\ fixed_agent \in {None, Some(IdA)}
    /\ env_agent = None
    /\ resolved = None
    /\ now \in {0, 1800, 1801, 2400}
    /\ line = Blank /\ result = NoResult /\ emitted = <<>> /\ stopped = FALSE
    /\ agents \in EarlierTables
    /\ messages = {} /\ msg_seq = 0 /\ artifacts = NoTable /\ art_seq = 0
    /\ InitNoTasks /\ InitNoHistory
    /\ client = [sends |-> "frame", logged |-> FALSE, room |-> MaxPosts]
    /\ ppc = "start"
    /\ plocal = NoResult
    /\ pin = Blank

SpecFrame == InitFrame /\ [][McpCall]_vars

OverTime == McpCall \/ CliStatus \/ CliClearOffline \/ CliStatusClear \/ Elapse

SpecAgents == InitAgents /\ [][OverTime]_vars

----------------------------------------------------------------------------
(* Messages over time: a session and bb clear on one store *)

\* The durations given to bb clear --messages-before, in seconds: 0s and 30m.
ClearBefore == {0, 1800}

InitMessages ==
    /\ bb_dir = TRUE /\ db_file = TRUE /\ db_tables = TRUE /\ initialized = TRUE
    /\ fixed_agent = Some(IdA)
    /\ env_agent = None
    /\ resolved = None
    /\ now = 0
    /\ line = Blank /\ result = NoResult /\ emitted = <<>> /\ stopped = FALSE
    /\ InitEmptyStore /\ InitNoTasks /\ InitNoHistory
    /\ client = [sends |-> "messages", logged |-> FALSE, room |-> MaxMessages]
    /\ ppc = "start"
    /\ plocal = NoResult
    /\ pin = Blank

CliClearLeaves ==
    UNCHANGED <<fs_vars, resolver_vars, agents, msg_seq, art_seq, now, loop_vars,
                client, hist_vars, task_vars, plocal>>

\* DELETE FROM artifacts
clear_artifacts(arts) == NoTable

\* bb clear [--messages-before d] [--artifacts] --confirm: the counts (of the
\* messages listed since the cutoff, of the artifacts listed), nothing more
\* when both are zero, and otherwise each deletion that was asked for.  pin
\* keeps the --messages-before of the command.
CliClear ==
    \E messages_before \in {None} \cup {Some(d) : d \in ClearBefore} :
    \E arts \in BOOLEAN :
    \E counted \in IF IsSome(messages_before)
                   THEN list_messages(messages, Some(now - Unwrap(messages_before)),
                                      <<>>, None, None, None, None, None, 10000)
                   ELSE {<<>>} :
        /\ art_seq <= MaxPosts
        /\ IF Len(counted) > 0 \/ (arts /\ DOMAIN artifacts # {})
           THEN /\ messages' = IF IsSome(messages_before)
                               THEN delete_messages_before(messages,
                                                           now - Unwrap(messages_before))
                               ELSE messages
                /\ artifacts' = IF arts THEN clear_artifacts(artifacts) ELSE artifacts
           ELSE UNCHANGED <<messages, artifacts>>
        /\ ppc' = "bb clear"
        /\ pin' = [messages_before |-> messages_before]
        /\ CliClearLeaves

\* Half an hour and a second pass.
Later ==
    /\ now = 0
    /\ now' = 1801
    /\ UNCHANGED <<fs_vars, resolver_vars, store_vars, loop_vars, client, hist_vars,
                   task_vars, proc_vars>>

MessagesOverTime == McpCall \/ CliClear \/ Later

SpecMessages == InitMessages /\ [][MessagesOverTime]_vars

\* A session that posts messages and replies while bb clear deletes messages.
InitThreads ==
    /\ bb_dir = TRUE /\ db_file = TRUE /\ db_tables = TRUE /\ initialized = TRUE
    /\ fixed_agent = Some(IdA)
    /\ env_agent = None
    /\ resolved = None
    /\ now = 0
    /\ line = Blank /\ result = NoResult /\ emitted = <<>> /\ stopped = FALSE
    /\ InitEmptyStore /\ InitNoTasks /\ InitNoHistory
    /\ client = [sends |-> "threads", logged |-> FALSE, room |-> MaxMessages]
    /\ ppc = "start"
    /\ plocal = NoResult
    /\ pin = Blank

SpecThreads == InitThreads /\ [][MessagesOverTime]_vars

----------------------------------------------------------------------------
(* classify_liveness on its own *)

\* Elapsed times, in seconds, at and around the two thresholds.
ElapsedTimes == {0, 180, 299, 300, 301, 330, 359, 360, 900,
                 1799, 1800, 1801, 1830, 1859, 1860, 2100}
MaxLastSeen == 7

\* pin is the last_seen given to classify_liveness, now is Utc::now().
InitClassify ==
    /\ bb_dir = TRUE /\ db_file = TRUE /\ db_tables = TRUE /\ initialized = TRUE
    /\ fixed_agent = None /\ env_agent = None /\ resolved = None
    /\ line = Blank /\ result = NoResult /\ emitted = <<>> /\ stopped = FALSE
    /\ InitEmptyStore /\ InitNoTasks /\ InitNoHistory
    /\ client = [sends |-> "session", logged |-> FALSE, room |-> MaxMessages]
    /\ pin \in 0..MaxLastSeen
    /\ \E e \in ElapsedTimes : now = pin + e
    /\ ppc = "start"
    /\ plocal = "None"

Classify ==
    /\ ppc = "start"
    /\ ppc' = "classified"
    /\ plocal' = classify_liveness(pin, now)
    /\ UNCHANGED <<fs_vars, resolver_vars, store_vars, now, loop_vars, client,
                   hist_vars, task_vars, pin>>

SpecClassify == InitClassify /\ [][Classify]_vars

----------------------------------------------------------------------------
(* list_messages, list_artifacts and find_references on their own *)

Tag2 == <<"u">>
RefJ(v) == [where_ |-> <<"j">>, what |-> <<"i">>, ref_ |-> v]

\* Messages of every priority, by two agents, with and without tags, with a
\* numeric ref 13 and with the string refs "13", "x1" and "-5"; some of them
\* were posted at the same instant.
StoredMessage(id, from_agent, tags, priority, refs, t) ==
    [id |-> id, from_agent |-> from_agent, content |-> Content1, tags |-> tags,
     priority |-> Priority_as_str(priority), in_reply_to |-> None, refs |-> refs,
     created_at |-> t]

MessagePool ==
    { StoredMessage(1, IdA, <<Tag1>>, "Low", <<>>, 0),
      StoredMessage(2, IdB, <<>>, "Normal", <<RefJ(JNum(13))>>, 1),
      StoredMessage(3, IdA, <<Tag1, Tag2>>, "High", <<RefJ(JStr(<<"1", "3">>))>>, 1),
      StoredMessage(4, IdB, <<Tag2>>, "Critical", <<RefJ(JStr(<<"x", "1">>))>>, 2),
      StoredMessage(5, IdA, <<Tag1>>, "Critical", <<RefJ(JStr(<<"-", "5">>))>>, 0) }

\* n messages posted one a second, the last two at the same instant.
ManyMessages(n) ==
    { StoredMessage(i, IdA, <<>>, "Normal", <<>>, IF i = n THEN n - 1 ELSE i) : i \in 1..n }

StoredArtifact(id, produced_by, refs, t) ==
    [id |-> id, produced_by |-> produced_by, description |-> Desc1,
     version |-> None, refs |-> refs, created_at |-> t]

ArtifactTables ==
    { NoTable,
      (PathF :> StoredArtifact(1, IdA, <<RefJ(JNum(13))>>, 0)),
      (PathF :> StoredArtifact(1, IdA, <<RefJ(JStr(<<"1", "3">>))>>, 1))
        @@ (PathG :> StoredArtifact(2, IdB, <<>>, 1)) }

\* n artifacts registered one a second.
ManyArtifacts(n) ==
    [p \in { <<"p">> \o itoa(i) : i \in 1..n } |->
        StoredArtifact(atoi(Tail(p)), IdA, <<>>, atoi(Tail(p)))]

ListLimits == {0, 1, 10, 20}
CapLimits == {MAX_LIST_ROWS - 1, MAX_LIST_ROWS, MAX_LIST_ROWS + 1, 10000}
RefFilters ==
    { [ref_where |-> None, ref_what |-> None, ref_ref |-> None],
      [ref_where |-> Some(<<"j">>), ref_what |-> None, ref_ref |-> None],
      [ref_where |-> Some(<<"g">>), ref_what |-> Some(<<"i">>), ref_ref |-> None],
      [ref_where |-> None, ref_what |-> None, ref_ref |-> Some(<<"x", "1">>)],
      [ref_where |-> Some(<<"j">>), ref_what |-> Some(<<"i">>),
       ref_ref |-> Some(<<"1", "3">>)],
      [ref_where |-> Some(<<"j">>), ref_what |-> Some(<<"i">>),
       ref_ref |-> Some(<<"x", "1">>)],
      [ref_where |-> Some(<<"j">>), ref_what |-> Some(<<"i">>),
       ref_ref |-> Some(<<"-", "5">>)] }

MessageQueries ==
    { [kind |-> "messages", since |-> since, tags |-> tags, from_agent |-> from_agent,
       priority |-> priority, ref_where |-> r.ref_where, ref_what |-> r.ref_what,
       ref_ref |-> r.ref_ref, limit |-> limit] :
        since \in {None, Some(1)},
        tags \in {<<>>, <<Tag1>>, <<Tag1, Tag2>>},
        from_agent \in {None, Some(IdA)},
        priority \in {None, Some("Low"), Some("High")},
        r \in RefFilters,
        limit \in ListLimits }

ArtifactQueries ==
    { [kind |-> "artifacts", produced_by |-> produced_by, ref_where |-> r.ref_where,
       ref_what |-> r.ref_what, ref_ref |-> r.ref_ref, limit |-> limit] :
        produced_by \in {None, Some(IdA)},
        r \in RefFilters,
        limit \in ListLimits }

Unfiltered(kind, limit) ==
    IF kind = "messages"
    THEN [kind |-> kind, since |-> None, tags |-> <<>>, from_agent |-> None,
          priority |-> None, ref_where |-> None, ref_what |-> None, ref_ref |-> None,
          limit |-> limit]
    ELSE [kind |-> kind, produced_by |-> None, ref_where |-> None, ref_what |-> None,
          ref_ref |-> None, limit |-> limit]

Lookups ==
    { [kind |-> "refs", where_ |-> w, what |-> <<"i">>, ref_ |-> v] :
        w \in {<<"j">>, <<"g">>},
        v \in {JNum(13), JStr(<<"1", "3">>), JStr(<<"x", "1">>), JStr(<<"0", "1", "3">>),
               JNum(1)} }

\* Texts given as a ref on the command line: a text of n nines, and texts
\* with none to four colons, with blanks, with digits and other characters.
Nines(n) == [i \in 1..n |-> "9"]
Chars(parts) == parts[1] \o <<":">> \o parts[2] \o <<":">> \o parts[3]
ThirdParts ==
    { <<"1", "3">>, <<"x", "1">>, <<"0", "0", "7">>, <<"1", " ", "3">>, <<" ", "1", "3", " ">>,
      <<"-", "5">>, <<"+", "5">>, <<"1", "3", "a">>, <<>>, <<" ">>, <<"\t">>,
      Nines(9), Nines(19), Nines(20),
      [I64_MAX_DIGITS EXCEPT ![19] = "8"] }
RefTexts ==
    { Chars(<<w, h, r>>) : w \in {<<"a">>, <<" ", "a">>, <<>>, <<" ">>},
                           h \in {<<"b">>, <<"b", " ">>, <<>>},
                           r \in ThirdParts }
    \cup { <<>>, <<"a">>, <<"a", ":", "b">>, <<":">>, <<":", ":", ":">>,
           <<"a", ":", "b", ":", "1", ":", "2">>, <<"a", ":", "b", ":", "c", ":">> }

\* pin is the query, plocal the result; the store is drawn with the query.
InitList ==
    /\ bb_dir = TRUE /\ db_file = TRUE /\ db_tables = TRUE /\ initialized = TRUE
    /\ fixed_agent = None /\ env_agent = None /\ resolved = None
    /\ now = 2
    /\ line = Blank /\ result = NoResult /\ emitted = <<>> /\ stopped = FALSE
    /\ agents = NoTable /\ msg_seq = 0 /\ art_seq = 0
    /\ InitNoTasks /\ InitNoHistory
    /\ client = [sends |-> "session", logged |-> FALSE, room |-> MaxMessages]
    /\ \/ /\ pin \in MessageQueries
          /\ messages \in SUBSET MessagePool
          /\ artifacts = NoTable
       \/ /\ pin \in {Unfiltered("messages", l) : l \in CapLimits}
          /\ messages \in {ManyMessages(MAX_LIST_ROWS), ManyMessages(MAX_LIST_ROWS + 1)}
          /\ artifacts = NoTable
       \/ /\ pin \in ArtifactQueries
          /\ messages = {}
          /\ artifacts \in ArtifactTables
       \/ /\ pin \in {Unfiltered("artifacts", l) : l \in CapLimits}
          /\ messages = {}
          /\ artifacts \in {ManyArtifacts(MAX_LIST_ROWS), ManyArtifacts(MAX_LIST_ROWS + 1)}
       \/ /\ pin \in Lookups
          /\ messages \in SUBSET MessagePool
          /\ artifacts \in ArtifactTables
       \/ /\ pin \in {[kind |-> "text", text |-> t] : t \in RefTexts}
          /\ messages = {}
          /\ artifacts = NoTable
    /\ ppc = "start"
    /\ plocal = <<>>

ListLeaves ==
    UNCHANGED <<fs_vars, resolver_vars, store_vars, now, loop_vars, client, hist_vars,
                task_vars, pin>>

ListMessages ==
    /\ ppc = "start" /\ pin.kind = "messages"
    /\ plocal' \in list_messages(messages, pin.since, pin.tags, pin.from_agent,
                                  pin.priority, pin.ref_where, pin.ref_what,
                                  pin.ref_ref, pin.limit)
    /\ ppc' = "listed"
    /\ ListLeaves

ListArtifacts ==
    /\ ppc = "start" /\ pin.kind = "artifacts"
    /\ plocal' \in list_artifacts(artifacts, pin.produced_by, pin.ref_where,
                                   pin.ref_what, pin.ref_ref, pin.limit)
    /\ ppc' = "listed"
    /\ ListLeaves

FindReferences ==
    /\ ppc = "start" /\ pin.kind = "refs"
    /\ plocal' = find_references(messages, artifacts, pin.where_, pin.what, pin.ref_)
    /\ ppc' = "found"
    /\ ListLeaves

ParseRef ==
    /\ ppc = "start" /\ pin.kind = "text"
    /\ plocal' = parse_ref(pin.text)
    /\ ppc' = "parsed"
    /\ ListLeaves

Listing == ListMessages \/ ListArtifacts \/ FindReferences \/ ParseRef

SpecList == InitList /\ [][Listing]_vars

----------------------------------------------------------------------------
(* What the claims speak of *)

IsCall(l, names) == l.kind = "json" /\ l.method = "tools/call" /\ l.name \in names

\* The step is an iteration of the read loop that handled a call of one of
\* the named tools.
Handled(names) == ~stopped /\ ~stopped' /\ now' = now /\ IsCall(line', names)

\* The agent_id a call of identify carries, if its arguments deserialize.
IdentifyArg(l) ==
    IF IsSome(l.arguments) /\ de_IdentifyInput(Unwrap(l.arguments)).ok
    THEN Some(de_IdentifyInput(Unwrap(l.arguments)).val.agent_id)
    ELSE None

IdentityTools == {"set_status", "post_message", "register_artifact"}

\* The arguments of a call of an identity tool are there and deserialize.
Deserializes(l) ==
    /\ IsSome(l.arguments)
    /\ CASE l.name = "set_status" -> de_SetStatusInput(Unwrap(l.arguments)).ok
         [] l.name = "post_message" -> de_PostMessageInput(Unwrap(l.arguments)).ok
         [] l.name = "register_artifact" ->
                de_RegisterArtifactInput(Unwrap(l.arguments)).ok
         [] OTHER -> FALSE

\* What the session acts as.
Acting == resolve(fixed_agent, env_agent, resolved)

\* C2: the resolved slot is written at most once per session: once it holds
\* a value no step changes or clears it, and it leaves empty only through a
\* successful identify(id) made while there is neither a fixed nor an env-bound
\* identity, taking the value id.
C2_ResolvedWrittenOnce ==
    [][ /\ IsSome(resolved) => resolved' = resolved
        /\ resolved' # resolved =>
              /\ resolved = None /\ fixed_agent = None /\ env_agent = None
              /\ Handled({"identify"})
              /\ result'.ok
              /\ resolved' = IdentifyArg(line') ]_vars

\* A second identify, with another valid id, has failed and the slot still
\* holds the first one.
C2_Witness ==
    /\ resolved = Some(IdA)
    /\ IsCall(line, {"identify"}) /\ IdentifyArg(line) = Some(IdB)
    /\ ~result.ok

\* C3: resolve() returns the fixed identity if there is one, else the
\* env-bound one if there is one, else the resolved slot, else nothing; and a
\* status update that succeeds is made under that identity.
C3_ResolvePrecedence ==
    /\ IsSome(fixed_agent) => Acting = fixed_agent
    /\ ~IsSome(fixed_agent) /\ IsSome(env_agent) => Acting = env_agent
    /\ ~IsSome(fixed_agent) /\ ~IsSome(env_agent) => Acting = resolved
    /\ IsCall(line, {"set_status"}) /\ result.ok =>
          result.val.id = Unwrap(IF IsSome(fixed_agent) THEN fixed_agent
                                 ELSE IF IsSome(env_agent) THEN env_agent
                                 ELSE resolved)

\* A status update went through in a session started with --agent a and
\* BB_AGENT_ID=b.
C3_Witness ==
    /\ fixed_agent = Some(IdA) /\ env_agent = Some(IdB)
    /\ IsCall(line, {"set_status"}) /\ result.ok
    /\ IdA \in DOMAIN agents

\* C4: when a fixed identity exists, identify(id) fails with the error kind
\* IdentityAlreadyFixed for every valid id, and leaves the resolver unchanged.
C4_IdentityAlreadyFixed ==
    [][ ( /\ Handled({"identify"}) /\ initialized
          /\ IsSome(fixed_agent)
          /\ IsSome(IdentifyArg(line'))
          /\ validate_agent_id(Unwrap(IdentifyArg(line'))).ok )
        => ( /\ ~result'.ok
             /\ result'.kind = "IdentityAlreadyFixed"
             /\ UNCHANGED resolver_vars ) ]_vars

\* C5: with no fixed identity and an env-bound identity E, identify(id) is a
\* successful no-op with source "env" if and only if id = E and fails with the
\* error kind IdentityConflict otherwise; the resolved slot stays empty and
\* resolve() keeps returning E.
C5_EnvNoOpOrConflict ==
    [][ ( /\ Handled({"identify"}) /\ initialized
          /\ ~IsSome(fixed_agent) /\ IsSome(env_agent)
          /\ IsSome(IdentifyArg(line')) )
        => ( /\ IF IdentifyArg(line') = env_agent
                THEN result'.ok /\ result'.val.source = "env"
                ELSE ~result'.ok /\ result'.kind = "IdentityConflict"
             /\ resolved' = None
             /\ Acting' = env_agent ) ]_vars

\* C6: with neither a fixed nor an env-bound identity and the resolved slot
\* holding X, identify(X) is a successful no-op with source "identify",
\* identify(Y) fails with the error kind IdentityConflict for every other Y,
\* and the slot holds X afterwards.
C6_ResolvedNoOpOrConflict ==
    [][ ( /\ Handled({"identify"}) /\ initialized
          /\ ~IsSome(fixed_agent) /\ ~IsSome(env_agent) /\ IsSome(resolved)
          /\ IsSome(IdentifyArg(line')) )
        => ( /\ IF IdentifyArg(line') = resolved
                THEN result'.ok /\ result'.val.source = "identify"
                ELSE ~result'.ok /\ result'.kind = "IdentityConflict"
             /\ resolved' = resolved ) ]_vars

\* C7 as claimed: a call of set_status, post_message or register_artifact in a
\* session without identity fails with IdentityRequired, code -32002, and
\* writes nothing; with an identity it acts as resolve().
C7_IdentityRequired ==
    [][ Handled(IdentityTools) =>
          /\ ~IsSome(Acting) =>
                /\ ~result'.ok /\ result'.kind = "IdentityRequired"
                /\ emitted' = <<Response(request_id(line'), -32002)>>
                /\ UNCHANGED store_vars
          /\ result'.ok => IsSome(Acting) ]_vars

\* C7, amended: the same of the calls whose arguments deserialize, in a
\* session whose store was initialized when the server started.
C7_IdentityRequiredOfWellFormed ==
    [][ (Handled(IdentityTools) /\ initialized /\ Deserializes(line')) =>
          /\ ~IsSome(Acting) =>
                /\ ~result'.ok /\ result'.kind = "IdentityRequired"
                /\ emitted' = <<Response(request_id(line'), -32002)>>
                /\ UNCHANGED store_vars
          /\ result'.ok => IsSome(Acting) ]_vars

\* A well-formed set_status was refused for lack of an identity.
C7_Witness ==
    /\ initialized /\ ~IsSome(Acting)
    /\ line = SetStatusOk
    /\ result.kind = "IdentityRequired"
    /\ emitted = <<Response(JNum(1), -32002)>>
    /\ agents = NoTable

\* The input a call of a writing tool deserializes into.
InputOf(l) ==
    CASE l.name = "set_status" -> de_SetStatusInput(Unwrap(l.arguments)).val
      [] l.name = "post_message" -> de_PostMessageInput(Unwrap(l.arguments)).val
      [] l.name = "register_artifact" ->
             de_RegisterArtifactInput(Unwrap(l.arguments)).val

\* Every input of the call passes the validation the operation has for it;
\* msgs are the messages there were before the call.
InputsValid(l, msgs) ==
    LET inp == InputOf(l) IN
    /\ Deserializes(l)
    /\ CASE l.name = "set_status" ->
              /\ IsSome(inp.current_task) => validate_task(Unwrap(inp.current_task)).ok
              /\ IsSome(inp.blockers) => validate_blockers(Unwrap(inp.blockers)).ok
         [] l.name = "post_message" ->
              /\ validate_message_content(inp.content).ok
              /\ IsSome(inp.tags) => validate_tags(Unwrap(inp.tags)).ok
              /\ IsSome(inp.refs) => Len(Unwrap(inp.refs)) <= MAX_REFS_PER_ENTITY
              /\ IsSome(inp.reply_to) => \E m \in msgs : m.id = Unwrap(inp.reply_to)
         [] l.name = "register_artifact" ->
              /\ validate_artifact_path(inp.path).ok
              /\ validate_artifact_description(inp.description).ok
              /\ IsSome(inp.version) => validate_version(Unwrap(inp.version)).ok
              /\ IsSome(inp.refs) => Len(Unwrap(inp.refs)) <= MAX_REFS_PER_ENTITY

\* C9: set_status, post_message and register_artifact either fail and leave
\* the persisted agents, messages and artifacts exactly as they were, or
\* succeed on inputs that all pass validation and apply the whole write: the
\* entity they return is the row the store then holds, and nothing else of
\* the store changes.
C9_WritesAllOrNothing ==
    [][ Handled(IdentityTools) =>
          /\ ~result'.ok => UNCHANGED store_vars
          /\ result'.ok =>
                LET inp == InputOf(line')
                    v == result'.val
                IN
                /\ InputsValid(line', messages)
                /\ line'.name = "set_status" =>
                      /\ v.id = Unwrap(Acting)
                      /\ IsSome(inp.current_task) => v.current_task = Unwrap(inp.current_task)
                      /\ IsSome(inp.blockers) => v.blockers = inp.blockers
                      /\ v.id \in DOMAIN agents' /\ agents'[v.id] = agent_to_row(v)
                      /\ \A x \in DOMAIN agents : x # v.id => agents'[x] = agents[x]
                      /\ DOMAIN agents' = DOMAIN agents \cup {v.id}
                      /\ UNCHANGED <<messages, msg_seq, artifacts, art_seq>>
                /\ line'.name = "post_message" =>
                      /\ v.from_agent = Unwrap(Acting) /\ v.content = inp.content
                      /\ \A m \in messages : m.id # v.id
                      /\ \E m \in messages' :
                            /\ m.id = v.id /\ m.from_agent = v.from_agent
                            /\ m.content = v.content /\ m.tags = v.tags
                            /\ m.in_reply_to = v.in_reply_to /\ m.refs = v.refs
                            /\ messages' = messages \cup {m}
                      /\ UNCHANGED <<agents, artifacts, art_seq>>
                /\ line'.name = "register_artifact" =>
                      /\ v.path = inp.path /\ v.produced_by = Unwrap(Acting)
                      /\ v.description = inp.description /\ v.version = inp.version
                      /\ get_artifact_by_path(artifacts', v.path) = Some(v)
                      /\ \A x \in DOMAIN artifacts : x # v.path => artifacts'[x] = artifacts[x]
                      /\ DOMAIN artifacts' = DOMAIN artifacts \cup {v.path}
                      /\ UNCHANGED <<agents, messages, msg_seq>> ]_vars

\* A status update was refused for its blockers, although its task was valid,
\* and the agent's row is the one an earlier update left, at an earlier time.
C9_Witness ==
    /\ IsCall(line, {"set_status"}) /\ ~result.ok /\ result.kind = "InvalidInput"
    /\ InputOf(line).blockers = Some(BlockersLong)
    /\ InputOf(line).current_task = Some(Task1)
    /\ IdA \in DOMAIN agents
    /\ agents[IdA].last_seen < now
    /\ agents[IdA].status = "coding"

IsNotBlank(l) == l.kind # "blank"

IdentifyDone(t) == tpc[t] = "done" /\ targ[t].op = "identify"

\* C8: one lock serializes the identify and resolve operations on the shared
\* resolver: at most one task is inside the guarded region; of two finished
\* identify calls with different valid ids, on a resolver without fixed or
\* env-bound identity, exactly one succeeded and its id is in the resolved
\* slot, the other failed on the conflict; and what a resolve observed is what
\* the slot holds ever after.
C8_IdentifySerialized ==
    /\ \A t, u \in Tasks : tpc[t] \in Holding /\ tpc[u] \in Holding => t = u
    /\ \A t \in Tasks : tpc[t] \in Holding => lock = t
    /\ \A t, u \in Tasks :
          ( /\ IdentifyDone(t) /\ IdentifyDone(u)
            /\ targ[t].id \in ValidIds /\ targ[u].id \in ValidIds
            /\ targ[t].id # targ[u].id )
          => \E w \in {t, u} : \E l \in {t, u} \ {w} :
                /\ tres[w].res.ok
                /\ resolved = Some(targ[w].id)
                /\ ~tres[l].res.ok
                /\ tres[l].res.msg = "identity already set to a different value"
    /\ \A t \in Tasks :
          tpc[t] = "done" /\ targ[t].op = "resolve" /\ tres[t].res.ok
          => resolved = Some(tres[t].res.val)

\* identify(a) and identify(b) were in flight together with a resolve; b won,
\* a was refused, and the resolve saw b.
C8_Witness ==
    /\ targ[1] = [op |-> "identify", id |-> IdA]
    /\ targ[2] = [op |-> "identify", id |-> IdB]
    /\ targ[3].op = "resolve"
    /\ \A t \in 1..3 : tpc[t] = "done"
    /\ tres[2].res.ok /\ ~tres[1].res.ok
    /\ tres[3].res = Ok(IdB)
    /\ resolved = Some(IdB)

\* The two serial orders of the update and the touch.
UpdateThenTouch ==
    touch_agent(update_agent_status(pin.table, RaceAgent, pin.update.task,
                                    pin.update.progress, pin.update.status,
                                    pin.update.blockers, now).agents,
                RaceAgent, now).agents
TouchThenUpdate ==
    update_agent_status(touch_agent(pin.table, RaceAgent, now).agents, RaceAgent,
                        pin.update.task, pin.update.progress, pin.update.status,
                        pin.update.blockers, now).agents

\* C10: when a status update and a touch of the same agent interleave at the
\* level of their store statements, the final agent row is the one a serial
\* order of the two leaves, and no field the finished update wrote holds an
\* older value.
C10_SerialOutcome ==
    (ppc.update = "done" /\ ppc.touch = "done") =>
        /\ agents \in {UpdateThenTouch, TouchThenUpdate}
        /\ plocal.res.ok =>
              [agents[RaceAgent] EXCEPT !.last_seen = 0]
                  = [agent_to_row(plocal.res.val) EXCEPT !.last_seen = 0]

\* The step is an iteration of the read loop of a logged session.
ReadStep == Len(lines') = Len(lines) + 1

\* C11: whenever a tools/call is processed while the .bb directory or the
\* blackboard.db file is missing, the response carries the code -32001 and
\* the request does not touch the store: no file is created and no row is
\* read or written.
C11_NotInitializedNoAccess ==
    [][ ( /\ ReadStep
          /\ line'.kind = "json" /\ line'.method = "tools/call"
          /\ ~(bb_dir /\ db_file) )
        => ( /\ emitted' = <<Response(request_id(line'), -32001)>>
             /\ UNCHANGED <<store_vars, disk_vars>> ) ]_vars

\* C12, for a line that is text: a line that is not JSON gets exactly one response, a parse error
\* (-32700) with the id null; it changes neither the resolver nor the store,
\* the session goes on, and what every later answer is computed from (the
\* context and the store handle_request is given, and the initialized flag)
\* is as it was before the line.
C12_ParseErrorContinues ==
    [][ (ReadStep /\ line'.kind = "garbage") =>
          /\ emitted' = <<Response(JNull, -32700)>>
          /\ out' = Append(out, Response(JNull, -32700))
          /\ UNCHANGED <<resolver_vars, store_vars, fs_vars, now>>
          /\ ~stopped'
          /\ TheContext' = TheContext /\ TheStore' = TheStore
          /\ initialized' = initialized ]_vars

\* A status was set, then came a line that is not JSON, then get_status was
\* answered with the agent.
\* C12: a line that is not valid JSON, whether it is text that does not parse
\* or bytes that are not text, gets exactly one response, a parse error
\* (-32700) with the id null, changes neither the resolver nor the store, and
\* does not end the session.
C12_BadLineContinues ==
    [][ (ReadStep /\ line'.kind \in {"garbage", "bytes"}) =>
          /\ emitted' = <<Response(JNull, -32700)>>
          /\ out' = Append(out, Response(JNull, -32700))
          /\ UNCHANGED <<resolver_vars, store_vars>>
          /\ ~stopped' ]_vars

C12_Witness ==
    /\ lines = <<SetStatusOk, Garbage(Id2), Call(Id2, "get_status", None)>>
    /\ out = <<Response(JNum(1), 0), Response(JNull, -32700), Response(JNum(2), 0)>>
    /\ IdA \in DOMAIN agents
    /\ result.ok /\ \E a \in result.val : a.agent.id = IdA

\* The kind of the taxonomy the error of a handled call belongs to: a refusal
\* of identify because of a fixed identity is IdentityAlreadyFixed, a refusal
\* because of another env-bound or resolved identity is IdentityConflict, and
\* every other error is of the kind the tool returned.
OccurredKind ==
    IF /\ IsCall(line', {"identify"})
       /\ IsSome(IdentifyArg(line'))
       /\ validate_agent_id(Unwrap(IdentifyArg(line'))).ok
    THEN IF IsSome(fixed_agent) THEN "IdentityAlreadyFixed"
         ELSE IF IsSome(env_agent) \/ IsSome(resolved) THEN "IdentityConflict"
         ELSE result'.kind
    ELSE result'.kind

\* C13: the code of an error response identifies the kind of the error that
\* occurred: every kind of the taxonomy has one fixed negative code, and a
\* response carrying the code of a kind answers an error of that kind and of
\* no other (IdentityAlreadyFixed and IdentityConflict included).
C13_CodeIdentifiesKind ==
    [][ (Handled(ToolNames) /\ initialized /\ ~result'.ok) =>
          /\ emitted'[1].code < 0
          /\ \A k \in ErrorKinds :
                emitted'[1].code = error_code(k) => OccurredKind = k ]_vars

\* C14: while the store operation of a tools/call is running the dispatcher
\* can read the next line of the input, and the responses are written in the
\* order of the requests.
C14_ReadsWhileStoreRuns ==
    /\ (ppc.worker = "running" /\ ~stopped /\ Len(lines) < MaxLines)
          => ENABLED ServeLine
    /\ LET read == SelectSeq(lines, IsNotBlank) IN
       \A k \in 1..Len(out) : out[k].id = request_id(read[k])

\* The call takes the list-all path: summary, or get_status without agent_id.
ListsAll(l) ==
    \/ IsCall(l, {"summary"})
    \/ /\ IsCall(l, {"get_status"})
       /\ ~(IsSome(l.arguments) /\ IsSome(OptGet(Unwrap(l.arguments), "agent_id")))

\* More than 30 minutes before t.
PastThreshold(last_seen, t) == last_seen + 30 * 60 < t

\* No row of the table and no agent of the list is past the threshold
\* without being Offline, and the list is the table.
NoneLeftStale(ags, list, t) ==
    /\ \A x \in DOMAIN ags :
          PastThreshold(ags[x].last_seen, t) => ags[x].status = "offline"
    /\ \A a \in list : PastThreshold(a.last_seen, t) => a.status = "Offline"
    /\ {a.id : a \in list} = DOMAIN ags

OtherTools == {"get_status", "read_messages", "list_artifacts", "find_refs",
               "post_message", "register_artifact"}

\* C16: get_status with an explicit agent_id, read_messages, list_artifacts,
\* find_refs, post_message and register_artifact leave the persisted status of
\* every agent as it was, however old the agent's last_seen is.
C16_OnlyListAllSweeps ==
    [][ (Ran("mcp") /\ IsCall(line', OtherTools) /\ ~ListsAll(line')) =>
            \A x \in DOMAIN agents :
                x \in DOMAIN agents' /\ agents'[x].status = agents[x].status ]_vars

\* An agent last seen more than 30 minutes ago is still persisted as coding
\* after the session's get_status for that agent succeeded.
C16_Witness ==
    /\ ppc = "mcp" /\ result.ok
    /\ line = Call(Id1, "get_status", Some([agent_id |-> JStr(IdB)]))
    /\ now = 1801
    /\ IdB \in DOMAIN agents
    /\ agents[IdB].last_seen = 0 /\ agents[IdB].status = "coding"
    /\ IdA \in DOMAIN agents /\ agents[IdA].last_seen = now
    /\ messages # {}

\* C17: with e = now - last_seen measured exactly, classify returns Active if
\* and only if e <= 5 minutes, Stale if and only if 5 minutes < e <= 30
\* minutes, and Offline if and only if e > 30 minutes.
C17_ExactThresholds ==
    ppc = "classified" =>
        LET e == now - pin IN
        /\ plocal = "Active" <=> e <= 5 * 60
        /\ plocal = "Stale" <=> (5 * 60 < e /\ e <= 30 * 60)
        /\ plocal = "Offline" <=> e > 30 * 60

\* C18: after a status update that supplies a status other than Blocked the
\* persisted agent has no blockers, whether it had blockers before or the
\* same call supplies a blockers string; an update that sets no status and
\* no blockers leaves the blockers as they were.
C18_BlockersCleared ==
    [][ (Handled({"set_status"}) /\ result'.ok) =>
          LET inp == InputOf(line')
              who == Unwrap(Acting)
          IN  /\ (IsSome(inp.status) /\ AgentStatus_from_str(Unwrap(inp.status)) # "Blocked")
                     => agents'[who].blockers = None
              /\ (~IsSome(inp.status) /\ ~IsSome(inp.blockers) /\ who \in DOMAIN agents)
                     => agents'[who].blockers = agents[who].blockers ]_vars

\* C19: an agent row comes into being by the first touch or status set of its
\* agent and stays through every operation except the removal of offline
\* agents, which removes exactly the rows persisted as Offline when it
\* deletes (bb clear sweeps first) and leaves every other row as it was.
C19_RowsStayUntilCleared ==
    [][ LET gone == DOMAIN agents \ DOMAIN agents'
            new == DOMAIN agents' \ DOMAIN agents
        IN  /\ gone # {} => Ran("bb clear")
            /\ Ran("bb clear") =>
                  /\ gone = {x \in DOMAIN agents :
                                \/ agents[x].status = "offline"
                                \/ PastThreshold(agents[x].last_seen, now)}
                  /\ \A x \in DOMAIN agents' : agents'[x] = agents[x]
            /\ new # {} =>
                  \/ /\ Ran("mcp") /\ IsCall(line', {"set_status", "get_status"})
                     /\ new = {Unwrap(Acting)}
                  \/ Ran("bb status clear") /\ new = {IdB} ]_vars

\* bb clear listed an offline agent and another one, and removed the offline
\* one only.
C19_Witness ==
    /\ ppc = "bb clear"
    /\ \E a \in plocal.val : a.id = IdB /\ a.status = "Offline"
    /\ IdB \notin DOMAIN agents
    /\ IdA \in DOMAIN agents /\ agents[IdA].status = "coding"

\* C20: post_message with otherwise valid input and a reply_to that is not the
\* id of a stored message fails with NotFound and inserts nothing; with a
\* reply_to that is the id of a stored message it succeeds and the message it
\* stores has that id as its in_reply_to.
C20_ReplyToStored ==
    [][ ( /\ Handled({"post_message"}) /\ IsSome(Acting)
          /\ Deserializes(line')
          /\ validate_message_content(InputOf(line').content).ok
          /\ IsSome(InputOf(line').reply_to) )
        => LET to == Unwrap(InputOf(line').reply_to) IN
           IF \E m \in messages : m.id = to
           THEN /\ result'.ok
                /\ result'.val.in_reply_to = Some(to)
                /\ \E m \in messages' \ messages :
                      /\ m.id = result'.val.id /\ m.in_reply_to = Some(to)
                      /\ messages' = messages \cup {m}
           ELSE /\ ~result'.ok /\ result'.kind = "NotFound"
                /\ emitted'[1].code = -32004
                /\ UNCHANGED <<messages, msg_seq>> ]_vars

\* The second message stored is a reply to the first, and the call that
\* posted it returned it.
C20_Witness ==
    /\ \E m \in messages : m.id = 2 /\ m.in_reply_to = Some(1)
    /\ \E m \in messages : m.id = 1 /\ m.in_reply_to = None
    /\ line = Call(Id1, "post_message",
                   Some([content |-> JStr(Content1), reply_to |-> JNum(1)]))
    /\ result.ok /\ result.val.id = 2 /\ result.val.in_reply_to = Some(1)

----------------------------------------------------------------------------
\* C21: message ids are assigned by the store and are monotonic.  Every
\* successful post_message returns a positive id that is strictly greater
\* than the id of every message stored at the time of the post, and the
\* message is stored under that id; so at all times no two stored messages
\* share an id, and a message with a smaller id was not posted later.
C21_IdsMonotonic ==
    /\ [](\A m \in messages :
            /\ m.id > 0
            /\ \A q \in messages :
                  /\ q.id = m.id => q = m
                  /\ q.id < m.id => q.created_at <= m.created_at)
    /\ [][(Ran("mcp") /\ IsCall(line', {"post_message"}) /\ result'.ok) =>
            /\ result'.val.id > 0
            /\ \A m \in messages : result'.val.id > m.id
            /\ \E m \in messages' : m.id = result'.val.id /\ m \notin messages]_vars

\* A post has succeeded after an earlier message was deleted, next to a
\* message that is still stored.
C21_Witness ==
    /\ ppc = "mcp" /\ IsCall(line, {"post_message"}) /\ result.ok
    /\ result.val.id = 3
    /\ \E m \in messages : m.id = 2
    /\ \A m \in messages : m.id # 1

\* C22: messages are append-only.  In every step each stored message either
\* stays as it is, with every field, or is older than the cutoff of a bb clear
\* --messages-before that runs in this step; the calls of the session
\* (post_message, the agent tools, the artifact tools, the reads) leave every
\* stored message as it is.
C22_MessagesAppendOnly ==
    [][/\ \A m \in messages :
            \/ m \in messages'
            \/ /\ ppc' = "bb clear" /\ now' = now
               /\ \E d \in ClearBefore : m.created_at < now - d
       /\ Ran("mcp") => messages \subseteq messages']_vars

\* bb clear has deleted the older message and left the newer one.
C22_Witness ==
    /\ ppc = "bb clear"
    /\ msg_seq = 2
    /\ \E m \in messages : m.id = 2
    /\ \A m \in messages : m.id # 1

\* C23: the artifacts table has one row for each path, and a successful
\* register_artifact leaves under its path exactly what it was given: the
\* producer, the description, the version (none when the call gave none, also
\* when the row had one), the refs and the time of this registration; the rows
\* of the other paths stay, a refused registration changes nothing, and a
\* listing then has exactly one row with the path, the row returned.
C23_RegisterOverwrites ==
    [][Handled({"register_artifact"}) =>
         IF result'.ok
         THEN LET inp == InputOf(line')
                  row == artifacts'[inp.path]
              IN  /\ DOMAIN artifacts' = DOMAIN artifacts \cup {inp.path}
                  /\ row.produced_by = Unwrap(resolve(fixed_agent, env_agent, resolved))
                  /\ row.description = inp.description
                  /\ row.version = inp.version
                  /\ row.refs = IF IsSome(inp.refs) THEN to_refs(Unwrap(inp.refs))
                                ELSE <<>>
                  /\ row.created_at = now
                  /\ \A q \in DOMAIN artifacts \ {inp.path} : artifacts'[q] = artifacts[q]
                  /\ \A s \in list_artifacts(artifacts', None, None, None, None, 50) :
                        /\ Cardinality({i \in 1..Len(s) : s[i].path = inp.path}) = 1
                        /\ \E i \in 1..Len(s) : s[i] = result'.val
         ELSE artifacts' = artifacts]_vars

\* The file registered first was registered again, later than the second
\* file and without a version.
C23_Witness ==
    /\ IsCall(line, {"register_artifact"}) /\ result.ok
    /\ InputOf(line).path = PathF /\ InputOf(line).version = None
    /\ PathG \in DOMAIN artifacts
    /\ artifacts[PathF].id < artifacts[PathG].id
    /\ artifacts[PathF].created_at > artifacts[PathG].created_at
    /\ artifacts[PathF].version = None /\ artifacts[PathF].produced_by = IdA

\* The path is absolute, has a parent-directory segment, names a file that
\* resolves outside the project, or names no file.
PathRefused(path) ==
    \/ is_absolute(path)
    \/ contains_dotdot(path)
    \/ path \in FilesEscaping
    \/ path \notin FilesInside \cup FilesEscaping

\* C24: a register_artifact whose path is absolute, has a parent-directory
\* segment, resolves outside the project root or names a file that does not
\* exist is refused, and it leaves the store as it was: no artifact row is
\* created or changed.
C24_PathRefused ==
    [][(Handled({"register_artifact"}) /\ Deserializes(line')
            /\ PathRefused(InputOf(line').path)) =>
         /\ ~result'.ok
         /\ UNCHANGED store_vars]_vars

\* A registration of ../s by an identified session was refused for its path
\* while the store holds an artifact.
C24_Witness ==
    /\ IsCall(line, {"register_artifact"}) /\ InputOf(line).path = PathUp
    /\ ~result.ok /\ result.kind = "PathTraversal"
    /\ fixed_agent = Some(IdA)
    /\ DOMAIN artifacts # {}

\* The rows of a listing.
Listed == {plocal[i] : i \in 1..Len(plocal)}

\* C25: a listing of messages with minimum priority p holds only messages
\* whose priority is at least p in the order Low < Normal < High < Critical:
\* with p = High, only High and Critical messages.  The listing of summary's
\* high_priority_messages is the one with p = High, no other filter and
\* limit 10.
C25_MinimumPriority ==
    (ppc = "listed" /\ pin.kind = "messages" /\ IsSome(pin.priority)) =>
        \A m \in Listed :
            Priority_level(Priority_parse(m.priority)) >= Priority_level(Unwrap(pin.priority))

\* The rows the filters of the query select.
Matching ==
    IF pin.kind = "messages"
    THEN {m \in messages : where_messages(m, pin.since, pin.tags, pin.from_agent,
                                          pin.priority, pin.ref_where, pin.ref_what,
                                          pin.ref_ref)}
    ELSE {a \in artifact_rows(artifacts) :
             where_artifacts(a, pin.produced_by, pin.ref_where, pin.ref_what, pin.ref_ref)}

\* C26: list_messages and list_artifacts return matching rows, each once,
\* newest first, as many as there are up to the smaller of the caller's limit
\* and 100; no row left out is newer than a row returned.
C26_NewestFirstCapped ==
    ppc = "listed" =>
        /\ Len(plocal) = Min(Min(pin.limit, 100), Cardinality(Matching))
        /\ Len(plocal) <= 100
        /\ Listed \subseteq Matching
        /\ \A i, j \in 1..Len(plocal) :
              i < j => /\ plocal[i].created_at >= plocal[j].created_at
                       /\ plocal[i] # plocal[j]
        /\ \A r \in Matching \ Listed : \A m \in Listed : r.created_at <= m.created_at

\* A listing of 101 messages with limit 10000 has returned 100 of them, and
\* not the oldest.
C26_Witness ==
    /\ ppc = "listed" /\ pin.kind = "messages" /\ pin.limit = 10000
    /\ Cardinality(messages) = 101
    /\ Len(plocal) = 100
    /\ \A m \in Listed : m.id # 1

\* The ref a text stands for: a number when all its characters are digits.
RefOfText(t) ==
    IF \A i \in 1..Len(t) : is_ascii_digit(t[i]) THEN JNum(atoi(t)) ELSE JStr(t)

\* The message passes every filter the query supplies.
Satisfies(m, q) ==
    /\ IsSome(q.since) => m.created_at >= Unwrap(q.since)
    /\ Len(q.tags) > 0 =>
          \E i \in 1..Len(m.tags) : \E j \in 1..Len(q.tags) : m.tags[i] = q.tags[j]
    /\ IsSome(q.from_agent) => m.from_agent = Unwrap(q.from_agent)
    /\ IsSome(q.priority) =>
          Priority_level(Priority_parse(m.priority)) >= Priority_level(Unwrap(q.priority))
    /\ (IsSome(q.ref_where) /\ IsSome(q.ref_what) /\ IsSome(q.ref_ref)) =>
          \E i \in 1..Len(m.refs) :
              /\ m.refs[i].where_ = Unwrap(q.ref_where)
              /\ m.refs[i].what = Unwrap(q.ref_what)
              /\ m.refs[i].ref_ = RefOfText(Unwrap(q.ref_ref))

\* C27: the filters given to list_messages are ANDed.  With a limit (and the
\* cap of 100) that leaves room for every message, a stored message is in the listing if and
\* only if it passes every supplied filter: created at or after since,
\* carrying at least one of the supplied tags, posted by from_agent, of at
\* least the minimum priority, carrying the reference triple; a filter that
\* is not supplied excludes nothing.
C27_FiltersAnded ==
    (ppc = "listed" /\ pin.kind = "messages"
        /\ Min(pin.limit, 100) >= Cardinality(messages)) =>
        \A m \in messages : (m \in Listed) <=> Satisfies(m, pin)

\* The text of a ref: the decimal digits of a number, the characters of a string.
TextualForm(v) == IF "num" \in DOMAIN v THEN to_string(v.num) ELSE v.str

RefMatches(refs, q) ==
    \E i \in 1..Len(refs) :
        /\ refs[i].where_ = q.where_
        /\ refs[i].what = q.what
        /\ TextualForm(refs[i].ref_) = TextualForm(q.ref_)

\* C28: find_references returns a message or an artifact if and only if one
\* of its refs has the where and the what of the lookup and a ref of the same
\* textual form, whatever the types: a stored number 13 is found by the
\* string "13" and a stored string "13" by the number 13.
C28_RefsMatchByText ==
    ppc = "found" =>
        /\ plocal.messages = {m \in messages : RefMatches(m.refs, pin)}
        /\ plocal.artifacts = {a \in artifact_rows(artifacts) : RefMatches(a.refs, pin)}
        /\ \A v \in {JNum(13), JStr(<<"1", "3">>)} :
              pin.ref_ = v =>
                \A m \in messages :
                  (\E i \in 1..Len(m.refs) :
                      /\ m.refs[i].where_ = pin.where_ /\ m.refs[i].what = pin.what
                      /\ m.refs[i].ref_ \in {JNum(13), JStr(<<"1", "3">>)})
                  => m \in plocal.messages

\* A lookup by the number 13 has found the message and the artifact that
\* carry the string "13", and the message that carries the number.
C28_Witness ==
    /\ ppc = "found" /\ pin.ref_ = JNum(13)
    /\ \E m \in plocal.messages : m.id = 2
    /\ \E m \in plocal.messages : m.id = 3
    /\ \E a \in plocal.artifacts : a.refs[1].ref_ = JStr(<<"1", "3">>)
    /\ \A m \in plocal.messages : m.id # 4

\* C29: parse_ref(s) succeeds exactly when s splits on ':' into exactly three
\* parts that are each non-empty after trimming; where and what are then the
\* trimmed first two parts, and the ref is a number when every character of
\* the trimmed third part is an ASCII digit, however many there are, and the
\* string of that part otherwise.  Every other input gives InvalidRefFormat,
\* and no input makes the parser abort.
C29_ParseRef ==
    ppc = "parsed" =>
        LET parts == split(pin.text, ":")
            wellformed == Len(parts) = 3 /\ \A i \in 1..3 : Len(trim(parts[i])) > 0
        IN  /\ plocal.kind # "panic"
            /\ plocal.ok <=> wellformed
            /\ ~plocal.ok => plocal.kind = "InvalidRefFormat"
            /\ plocal.ok =>
                  LET third == trim(parts[3]) IN
                  /\ plocal.val.where_ = trim(parts[1])
                  /\ plocal.val.what = trim(parts[2])
                  /\ IF \A i \in 1..Len(third) : is_ascii_digit(third[i])
                     THEN /\ "num" \in DOMAIN plocal.val.ref_
                          /\ Len(third) <= 9 => plocal.val.ref_.num = atoi(third)
                     ELSE plocal.val.ref_ = JStr(third)

\* The object has exactly the fields where, what and ref.
NamedAsCatalog(o, refTypes) ==
    /\ DOMAIN o = {"where", "what", "ref"}
    /\ "str" \in DOMAIN o.where /\ "str" \in DOMAIN o.what
    /\ DOMAIN o.ref \subseteq refTypes

\* C30: a find_refs call whose arguments are exactly where, what and ref, the
\* names the tools/list catalog declares as required, is accepted and returns
\* messages and artifacts; and a post_message or register_artifact of an
\* identified session whose refs are objects {where, what, ref} is accepted
\* and stores those triples.
C30_CatalogNamesAccepted ==
    [][/\ (Handled({"find_refs"}) /\ IsSome(line'.arguments)
            /\ NamedAsCatalog(Unwrap(line'.arguments), {"str"})) =>
             /\ result'.ok
             /\ DOMAIN result'.val = {"messages", "artifacts"}
       /\ (Handled({"post_message", "register_artifact"})
            /\ IsSome(resolve(fixed_agent, env_agent, resolved))
            /\ HasKey(Unwrap(line'.arguments), "refs")
            /\ \A i \in 1..Len(Unwrap(line'.arguments).refs.arr) :
                  NamedAsCatalog(Unwrap(line'.arguments).refs.arr[i], {"str", "num"})) =>
             /\ result'.ok
             /\ result'.val.refs =
                  [i \in 1..Len(Unwrap(line'.arguments).refs.arr) |->
                     LET r == Unwrap(line'.arguments).refs.arr[i] IN
                     [where_ |-> r.where.str, what |-> r.what.str, ref_ |-> r.ref]]]_vars

\* C31: a tools/call that is answered with an error leaves the agents, the
\* messages and the artifacts as they were, whatever the tool and the session.
C31_ErrorsLeaveStore ==
    [][(Handled(ToolNames) /\ ~result'.ok) =>
          /\ agents' = agents
          /\ messages' = messages
          /\ artifacts' = artifacts]_vars

\* The row of agent x was written by the step, other than by the sweep setting
\* its status to offline.
RowWritten(x) ==
    \/ x \notin DOMAIN agents
    \/ /\ agents'[x] # agents[x]
       /\ agents'[x] # [agents[x] EXCEPT !.status = "offline"]

\* C32: once the session acts as some agent it acts as that agent for good,
\* and every agent row a tool call touches or updates, every message it posts
\* (from_agent) and every artifact it registers (produced_by) carries the id
\* the session acts as.
C32_OneActingIdentity ==
    [][/\ IsSome(Acting) => Acting' = Acting
       /\ Handled(ToolNames) =>
            /\ \A x \in DOMAIN agents' : RowWritten(x) => Acting' = Some(x)
            /\ \A m \in messages' \ messages : Acting' = Some(m.from_agent)
            /\ \A p \in DOMAIN artifacts' :
                  (p \notin DOMAIN artifacts \/ artifacts'[p] # artifacts[p])
                      => Acting' = Some(artifacts'[p].produced_by)]_vars

\* A session that took its identity from identify has written an agent row, a
\* message and an artifact, and an identify with another valid id has failed.
C32_Witness ==
    /\ IsSome(resolved) /\ Acting = resolved
    /\ Unwrap(resolved) \in DOMAIN agents
    /\ \E m \in messages : m.from_agent = Unwrap(resolved)
    /\ \E p \in DOMAIN artifacts : artifacts[p].produced_by = Unwrap(resolved)
    /\ IsCall(line, {"identify"}) /\ ~result.ok
    /\ IsSome(IdentifyArg(line))
    /\ Unwrap(IdentifyArg(line)) \in ValidIds \ {Unwrap(resolved)}

\* C33: the initialized flag of a server never changes.  A server whose flag
\* is false answers every tools/call with -32001 and leaves the directory, the
\* file, the tables and the resolver alone, also when the store has been
\* initialized since; initialize and tools/list get their result whatever the
\* flag is.
C33_InitializedReadOnce ==
    [][/\ initialized' = initialized
       /\ (ppc' = "mcp" /\ line'.kind = "json" /\ line'.method = "tools/call"
           /\ ~initialized) =>
             /\ emitted' = <<Response(request_id(line'), -32001)>>
             /\ UNCHANGED <<store_vars, bb_dir, disk_vars, resolver_vars>>
       /\ (ppc' = "mcp" /\ line'.kind = "json"
           /\ line'.method \in {"initialize", "tools/list"}) =>
             /\ emitted' = <<Response(request_id(line'), 0)>>
             /\ UNCHANGED <<store_vars, bb_dir, disk_vars, resolver_vars>>]_vars

\* The server started without a store; bb init has created it; the server has
\* just answered a tools/call with -32001.
C33_Witness ==
    /\ ~initialized /\ bb_dir /\ db_file /\ db_tables
    /\ ppc = "mcp"
    /\ line.kind = "json" /\ line.method = "tools/call"
    /\ emitted = <<Response(request_id(line), -32001)>>

\* C34: in the answer of a list-all call (get_status without agent_id,
\* summary) every agent whose status the sweep of that call turned to offline
\* has the liveness Offline.
C34_SweptIsOffline ==
    [][(Ran("mcp") /\ ListsAll(line') /\ result'.ok) =>
          \A a \in result'.val :
              ( /\ a.agent.id \in DOMAIN agents
                /\ agents[a.agent.id].status # "offline"
                /\ agents'[a.agent.id].status = "offline" )
              => a.liveness = "Offline"]_vars

\* C35: the touch of get_status changes nothing but last_seen in the row of an
\* agent that has one: current_task, progress, status, blockers and updated_at
\* stay, so an agent persisted as offline is still offline after the call and
\* delete_offline_agents still removes it.
C35_TouchKeepsRow ==
    [][(Ran("mcp") /\ IsCall(line', {"get_status"})
        /\ IsSome(Acting) /\ Unwrap(Acting) \in DOMAIN agents) =>
          LET who == Unwrap(Acting) IN
          /\ who \in DOMAIN agents'
          /\ agents'[who] = [agents[who] EXCEPT !.last_seen = now]
          /\ agents[who].status = "offline" =>
                /\ agents'[who].status = "offline"
                /\ who \notin DOMAIN delete_offline_agents(agents')]_vars

\* The session's agent was swept to offline by bb status, and a get_status of
\* the session has touched it since: it is seen now and still offline.
C35_Witness ==
    /\ ppc = "mcp" /\ IsCall(line, {"get_status"})
    /\ IdA \in DOMAIN agents
    /\ agents[IdA].status = "offline"
    /\ agents[IdA].last_seen = now /\ now > 0
    /\ agents[IdA].current_task = Task1

\* The row of x after a sweep, which may have set its status to offline.
SweptOnly(x) ==
    /\ (agents'[x].status = "offline" /\ agents[x].status # "offline") =>
           agents'[x] = [agents[x] EXCEPT !.status = "offline"]
    /\ (agents[x].status = "offline" \/ ~PastThreshold(agents[x].last_seen, now)) =>
           agents'[x] = agents[x]

\* C36: the sweep of a list-all (summary, bb status, get_status without
\* agent_id) changes only the status: an agent it sets to offline keeps its
\* current_task, progress, blockers, last_seen and updated_at, and an agent
\* that is offline already or was seen within the threshold keeps its whole
\* row.  (The row get_status touches for the session is not the sweep's.)
C36_SweepChangesStatusOnly ==
    [][/\ ((Ran("mcp") /\ IsCall(line', {"summary"})) \/ Ran("bb status")) =>
            /\ DOMAIN agents' = DOMAIN agents
            /\ \A x \in DOMAIN agents : SweptOnly(x)
       /\ (Ran("mcp") /\ IsCall(line', {"get_status"}) /\ ListsAll(line')) =>
            \A x \in DOMAIN agents : Acting # Some(x) => SweptOnly(x)]_vars

\* A blocked agent with blockers was swept to offline and has its blockers,
\* its task and its last_seen.
C36_Witness ==
    /\ ppc \in {"mcp", "bb status"}
    /\ IdB \in DOMAIN agents
    /\ agents[IdB].status = "offline"
    /\ agents[IdB].blockers = Some(Blockers1)
    /\ agents[IdB].current_task = Task1
    /\ agents[IdB].last_seen = 0 /\ now > 1800

\* C37: every stored message that is a reply has an in_reply_to smaller than
\* its own id; no message replies to itself and no chain of replies comes
\* back to where it started.
C37_RepliesPointBack ==
    \A m \in messages : IsSome(m.in_reply_to) => Unwrap(m.in_reply_to) < m.id

\* Message 3 replies to message 2, which replies to message 1, which bb clear
\* has deleted.
C37_Witness ==
    /\ \E m \in messages : m.id = 3 /\ m.in_reply_to = Some(2)
    /\ \E m \in messages : m.id = 2 /\ m.in_reply_to = Some(1)
    /\ \A m \in messages : m.id # 1

\* The query has the reference filter and no other, and a limit that leaves
\* room for every row.
OnlyByRef(q) ==
    /\ IsSome(q.ref_where) /\ IsSome(q.ref_what) /\ IsSome(q.ref_ref)
    /\ IF q.kind = "messages"
       THEN /\ q.since = None /\ q.tags = <<>> /\ q.from_agent = None /\ q.priority = None
            /\ Min(q.limit, 100) >= Cardinality(messages)
       ELSE /\ q.produced_by = None
            /\ Min(q.limit, 100) >= Cardinality(DOMAIN artifacts)

\* C38: list_messages and list_artifacts with the reference filter w, x, r and
\* nothing else select the rows find_references(w, x, r) returns: a row stored
\* with the string ref "13" is listed for ref_ref = "13" as the row with the
\* number 13 is.
C38_ListAsFind ==
    (ppc = "listed" /\ pin.kind \in {"messages", "artifacts"} /\ OnlyByRef(pin)) =>
        LET found == find_references(messages, artifacts, Unwrap(pin.ref_where),
                                     Unwrap(pin.ref_what), JStr(Unwrap(pin.ref_ref)))
        IN  Listed = IF pin.kind = "messages" THEN found.messages ELSE found.artifacts

\* One or two of the three parts of the reference filter are given.
PartOfRef(q) ==
    /\ IsSome(q.ref_where) \/ IsSome(q.ref_what) \/ IsSome(q.ref_ref)
    /\ ~(IsSome(q.ref_where) /\ IsSome(q.ref_what) /\ IsSome(q.ref_ref))

\* C39: a listing given only one or two of ref_where, ref_what and ref_ref is
\* a listing the same call gives without any of them: the reference filter
\* is applied only when all three are there.
C39_PartialRefIgnored ==
    (ppc = "listed" /\ PartOfRef(pin)) =>
        IF pin.kind = "messages"
        THEN plocal \in list_messages(messages, pin.since, pin.tags, pin.from_agent,
                                      pin.priority, None, None, None, pin.limit)
        ELSE plocal \in list_artifacts(artifacts, pin.produced_by, None, None, None,
                                       pin.limit)

\* A listing given ref_where and ref_what alone holds a message that has no
\* ref at all.
C39_Witness ==
    /\ ppc = "listed" /\ pin.kind = "messages"
    /\ IsSome(pin.ref_where) /\ IsSome(pin.ref_what) /\ ~IsSome(pin.ref_ref)
    /\ \E i \in 1..Len(plocal) : plocal[i].refs = <<>>

\* C40: bb clear --messages-before D --confirm, run while a stored message is
\* older than the cutoff, deletes every message older than the cutoff and
\* keeps every other, however many messages are newer than the cutoff.
C40_ClearDeletesOlder ==
    [][(Ran("bb clear") /\ IsSome(pin'.messages_before)) =>
          LET cutoff == now - Unwrap(pin'.messages_before) IN
          (\E m \in messages : m.created_at < cutoff) =>
              messages' = {m \in messages : ~(m.created_at < cutoff)}]_vars

====
